---- MODULE Spec2Model ----
(***************************************************************************)
(* Durable state engine of the builder: the lock file protocol             *)
(* (LockManager), the state document store (New / Load / State.Save) and   *)
(* the Manager that binds both into a session, over a small file system    *)
(* with directory entries, inodes and open file handles.                   *)
(***************************************************************************)
EXTENDS Integers, FiniteSets, Sequences, TLC

\* ---------------------------------------------------------------- bounds
NumManagers == 2
MaxSerial == 4
MaxSteps == 3

Managers == 1..NumManagers
BuildNames == {"b1"}
TemplateHashes == {"h1"}
\* keys and values of the variables and files mappings of the template inputs
Keys == {"a", "b"}
Vals == {"", "x"}
Hashes == {"h1", "h2"}

\* ------------------------------------------------------------ file system
StatePath == "state"
LockPath == "lock"
TmpPath_InPlace == "state"
TmpPath == "tmp"
Paths == {StatePath, LockPath, "tmp"}

NoFile == 0
\* one inode per path, one per open handle of a manager, one for the reader
NumInodes == NumManagers + 4
Inodes == 1..NumInodes

NoLock == 0
LockIds == 1..(NumManagers + 1)
Lineages == 1..(NumManagers + NumInodes + 1)

FreeData == [kind |-> "free"]
EmptyData == [kind |-> "empty"]
TruncData == [kind |-> "trunc"]
Absent == [kind |-> "absent"]
NilState == [kind |-> "nil"]
DecodeError == [kind |-> "err"]

\* map[string]string: the mappings from some of the keys to values
NoEntries == [k \in {} |-> ""]
Maps == UNION {[D -> Vals] : D \in SUBSET Keys}
\* the TemplateState of a new or decoded document (a nil map reads as empty)
ZeroTemplate == [hash |-> "", variables |-> NoEntries, files |-> NoEntries]
NoArgs == [kind |-> "none"]
NoCmd == [kind |-> "none"]

AllFields == {"version", "serial", "lineage", "template", "builds"}
NoBuilds == [n \in {} |-> [status |-> "pending"]]

VARIABLES
  dir,      \* path -> inode or NoFile
  data,     \* inode -> content
  pc,       \* manager -> position inside the running operation
  call,     \* manager -> operation being executed / last executed
  fd,       \* manager -> inode of the handle it has open, or NoFile
  lmLock,   \* manager -> lm.lock (id of the lock it believes it holds)
  newLock,  \* manager -> id of the Lock record under construction in Lock()
  mState,   \* manager -> m.state (in-memory document or NilState)
  ret,      \* manager -> result of the last finished operation
  s0,       \* manager -> Serial of the document when State.Save was entered
  sess,     \* manager -> caller is between a successful Load and a successful Close/Unlock
  rpc,      \* lock-free reader (state show, test readers): position
  rfd,      \* reader: inode it has open
  rret,     \* reader: result of its last Load
  faults,   \* whether calls into the file system can fail in this run
  args,     \* receiver and arguments of the last InputsChanged call
  cmd       \* the command or library call in progress: its inputs, position and results

vars == <<dir, data, pc, call, fd, lmLock, newLock, mState, ret, s0, sess, rpc, rfd, rret, faults, args, cmd>>

\* results of a file system call: TRUE it worked, FALSE it returned an error
Outcomes == IF faults THEN BOOLEAN ELSE {TRUE}

\* ---------------------------------------------------------------- helpers
ContentOf(d, dt, p) == IF d[p] = NoFile THEN Absent ELSE dt[d[p]]
ContentAt(p) == ContentOf(dir, data, p)

Referenced(d, f, rf) == ({d[p] : p \in Paths} \cup {f[m] : m \in Managers} \cup {rf}) \ {NoFile}

\* an inode nobody refers to (neither a directory entry nor an open handle)
FreeInode(d, f, rf) == CHOOSE i \in Inodes : /\ i \notin Referenced(d, f, rf)
                                             /\ \A j \in Inodes : j \notin Referenced(d, f, rf) => i <= j

\* an inode is reclaimed by the kernel when its last reference goes away
GC(d, f, rf, dt) == [i \in Inodes |-> IF i \in Referenced(d, f, rf) THEN dt[i] ELSE FreeData]

LiveLockIds == {lmLock[m] : m \in Managers} \cup {newLock[m] : m \in Managers}
               \cup {data[i].id : i \in {j \in Inodes : data[j].kind = "lock"}}

\* uuid.New() in Lock: an id different from every id still in existence
FreshLockId == CHOOSE x \in LockIds : /\ x \notin LiveLockIds
                                      /\ \A y \in LockIds : y \notin LiveLockIds => x <= y

LiveLineages == {mState[m].lineage : m \in {k \in Managers : mState[k].kind = "doc"}}
                \cup {data[i].lineage : i \in {j \in Inodes : data[j].kind = "json"}}

\* uuid.New() in New: a lineage different from every lineage still in existence
FreshLineage == CHOOSE x \in Lineages : /\ x \notin LiveLineages
                                        /\ \A y \in Lineages : y \notin LiveLineages => x <= y

\* ------------------------------------------------------- state documents
New_SerialZero(l) == [kind |-> "doc", version |-> 1, serial |-> 0, lineage |-> l,
                      template |-> ZeroTemplate, builds |-> NoBuilds, nilBuilds |-> FALSE]

\* nilBuilds: the Builds field is a nil map (New makes an empty one)
New(l) == [kind |-> "doc", version |-> 1, serial |-> 1, lineage |-> l,
           template |-> ZeroTemplate, builds |-> NoBuilds, nilBuilds |-> FALSE]

\* a nil Builds map is written as "builds": null, which decodes as a missing
\* key does: both are the file without a builds field here
WrittenFields(doc) == IF doc.nilBuilds THEN AllFields \ {"builds"} ELSE AllFields

Encode_NoLineage(doc) ==
  [kind |-> "json", fields |-> WrittenFields(doc), version |-> doc.version,
   serial |-> doc.serial, lineage |-> 0, template |-> doc.template,
   builds |-> doc.builds]

\* json.NewEncoder(f).Encode(s): every exported field of State is written
Encode(doc) ==
  [kind |-> "json", fields |-> WrittenFields(doc), version |-> doc.version,
   serial |-> doc.serial, lineage |-> doc.lineage, template |-> doc.template,
   builds |-> doc.builds]

\* json.NewDecoder(f).Decode(&state): a key missing from the file leaves the
\* zero value of the field (a nil map for builds); anything that is not a
\* JSON object is an error
Decode(c) ==
  IF c.kind # "json" THEN DecodeError
  ELSE [kind |-> "doc",
        version |-> IF "version" \in c.fields THEN c.version ELSE 0,
        serial |-> IF "serial" \in c.fields THEN c.serial ELSE 0,
        lineage |-> IF "lineage" \in c.fields THEN c.lineage ELSE 0,
        template |-> IF "template" \in c.fields THEN c.template ELSE ZeroTemplate,
        builds |-> IF "builds" \in c.fields THEN c.builds ELSE NoBuilds,
        nilBuilds |-> "builds" \notin c.fields]

\* ------------------------------------------------------------------ Init
\* a document stored by an earlier run: New, then one State.Save
InitDoc == [New(1) EXCEPT !.serial = 2]

\* what may lie at the state path before the first operation: nothing, a
\* document saved earlier, a file that does not parse, a document of another
\* schema version, a document without a version key
InitFiles == {Absent, TruncData, Encode(InitDoc)}

OtherVersionFiles ==
  {[Encode(InitDoc) EXCEPT !.version = 2],
   [Encode(InitDoc) EXCEPT !.fields = AllFields \ {"version"}]}

InitWith(files) ==
  /\ \E c \in files :
       /\ dir = [p \in Paths |-> IF p = StatePath /\ c # Absent THEN 1 ELSE NoFile]
       /\ data = [i \in Inodes |-> IF i = 1 /\ c # Absent THEN c ELSE FreeData]
  /\ pc = [m \in Managers |-> "idle"]
  /\ call = [m \in Managers |-> "none"]
  /\ fd = [m \in Managers |-> NoFile]
  /\ lmLock = [m \in Managers |-> NoLock]
  /\ newLock = [m \in Managers |-> NoLock]
  /\ mState = [m \in Managers |-> NilState]
  /\ ret = [m \in Managers |-> "none"]
  /\ s0 = [m \in Managers |-> 0]
  /\ sess = [m \in Managers |-> FALSE]
  /\ rpc = "idle"
  /\ rfd = NoFile
  /\ rret = [kind |-> "none"]
  /\ faults \in BOOLEAN
  /\ args = NoArgs
  /\ cmd = NoCmd

Init == InitWith(InitFiles)

InitOtherVersion == InitWith(OtherVersionFiles)

\* --------------------------------------------------------- step helpers
Enter(m, c, l) == /\ pc' = [pc EXCEPT ![m] = l]
                  /\ call' = [call EXCEPT ![m] = c]
                  /\ ret' = [ret EXCEPT ![m] = "none"]
Finish(m, c, r) == /\ pc' = [pc EXCEPT ![m] = "idle"]
                   /\ call' = [call EXCEPT ![m] = c]
                   /\ ret' = [ret EXCEPT ![m] = r]
Goto(m, l) == /\ pc' = [pc EXCEPT ![m] = l]
              /\ UNCHANGED <<call, ret>>
Return(m, r) == /\ pc' = [pc EXCEPT ![m] = "idle"]
                /\ ret' = [ret EXCEPT ![m] = r]
                /\ UNCHANGED call
SetFS(d, f, rf, dt) == /\ dir' = d
                       /\ fd' = f
                       /\ rfd' = rf
                       /\ data' = GC(d, f, rf, dt)
SameFS == UNCHANGED <<dir, data, fd, rfd>>

\* --------------------------------------------------- LockManager.Lock
LockPathTaken_NoExcl == FALSE
\* os.OpenFile(lockPath, O_CREATE|O_EXCL|O_WRONLY) fails when the path exists
LockPathTaken == dir[LockPath] # NoFile

\* Manager.Load is entered; Lock: os.Stat(lockPath) finds a lock file or not
ManagerLoad(m) ==
  /\ pc[m] = "idle"
  /\ \E ok \in Outcomes :
       IF ok /\ dir[LockPath] # NoFile
         THEN Finish(m, "Load", "locked")
         ELSE Enter(m, "Load", "lk_create")
  /\ SameFS
  /\ UNCHANGED <<lmLock, newLock, mState, s0, sess, rpc, rret, faults, args, cmd>>

LockCreate_Truncate(m) ==
  /\ pc[m] = "lk_create"
  /\ \E ok \in Outcomes :
       IF ~ok THEN /\ Return(m, "io")
                   /\ SameFS
                   /\ UNCHANGED newLock
       ELSE LET i == IF dir[LockPath] = NoFile THEN FreeInode(dir, fd, rfd) ELSE dir[LockPath] IN
            /\ SetFS([dir EXCEPT ![LockPath] = i], [fd EXCEPT ![m] = i], rfd,
                     [data EXCEPT ![i] = EmptyData])
            /\ newLock' = [newLock EXCEPT ![m] = FreshLockId]
            /\ Goto(m, "lk_write")
  /\ UNCHANGED <<lmLock, mState, s0, sess, rpc, rret, faults, args, cmd>>

\* Lock: mint the record, MkdirAll, exclusive create of the lock file
LockCreate(m) ==
  /\ pc[m] = "lk_create"
  /\ \E ok \in Outcomes :
       IF ~ok THEN /\ Return(m, "io")
                   /\ SameFS
                   /\ UNCHANGED newLock
       ELSE IF LockPathTaken THEN /\ Return(m, "locked")
                                  /\ SameFS
                                  /\ UNCHANGED newLock
       ELSE LET i == FreeInode(dir, fd, rfd) IN
            /\ SetFS([dir EXCEPT ![LockPath] = i], [fd EXCEPT ![m] = i], rfd,
                     [data EXCEPT ![i] = EmptyData])
            /\ newLock' = [newLock EXCEPT ![m] = FreshLockId]
            /\ Goto(m, "lk_write")
  /\ UNCHANGED <<lmLock, mState, s0, sess, rpc, rret, faults, args, cmd>>

\* Lock: f.Write(lockData); on failure the handle is closed
LockWrite(m) ==
  /\ pc[m] = "lk_write"
  /\ \E ok \in Outcomes :
       IF ok THEN /\ SetFS(dir, fd, rfd,
                           [data EXCEPT ![fd[m]] = [kind |-> "lock", id |-> newLock[m]]])
                  /\ Goto(m, "lk_close")
             ELSE /\ SetFS(dir, [fd EXCEPT ![m] = NoFile], rfd, data)
                  /\ Goto(m, "lk_rm")
  /\ UNCHANGED <<lmLock, newLock, mState, s0, sess, rpc, rret, faults, args, cmd>>

\* Lock: f.Close(); on success lm.lock = lock and Manager.Load goes on
LockClose(m) ==
  /\ pc[m] = "lk_close"
  /\ SetFS(dir, [fd EXCEPT ![m] = NoFile], rfd, data)
  /\ \E ok \in Outcomes :
       IF ok THEN /\ lmLock' = [lmLock EXCEPT ![m] = newLock[m]]
                  /\ newLock' = [newLock EXCEPT ![m] = NoLock]
                  /\ Goto(m, "ld_open")
             ELSE /\ Goto(m, "lk_rm")
                  /\ UNCHANGED <<lmLock, newLock>>
  /\ UNCHANGED <<mState, s0, sess, rpc, rret, faults, args, cmd>>

\* Lock: os.Remove(lockPath) after a failed write or close (result ignored)
LockRemove(m) ==
  /\ pc[m] = "lk_rm"
  /\ \E ok \in Outcomes :
       IF ok THEN SetFS([dir EXCEPT ![LockPath] = NoFile], fd, rfd, data)
             ELSE SameFS
  /\ newLock' = [newLock EXCEPT ![m] = NoLock]
  /\ Return(m, "io")
  /\ UNCHANGED <<lmLock, mState, s0, sess, rpc, rret, faults, args, cmd>>

\* ------------------------------------------------------------- Load(path)
LoadFailed_KeepLock(m, r) == Return(m, r)

\* the error of Load: Manager.Load unlocks before it returns it
LoadFailed(m, r) ==
  IF call[m] = "Load"
    THEN /\ pc' = [pc EXCEPT ![m] = "ul_read"]
         /\ ret' = [ret EXCEPT ![m] = r]
         /\ UNCHANGED call
    ELSE Return(m, r)

\* os.Open(path): missing file is "no state yet"; Manager.Load then calls New
LoadOpen(m) ==
  /\ pc[m] = "ld_open"
  /\ \E ok \in Outcomes :
       IF ~ok THEN
            /\ SameFS
            /\ LoadFailed(m, "io")
            /\ UNCHANGED <<mState, sess>>
       ELSE IF dir[StatePath] = NoFile THEN
            /\ SameFS
            /\ mState' = [mState EXCEPT ![m] = New(FreshLineage)]
            /\ sess' = [sess EXCEPT ![m] = (call[m] = "Load")]
            /\ Return(m, "ok")
       ELSE /\ SetFS(dir, [fd EXCEPT ![m] = dir[StatePath]], rfd, data)
            /\ Goto(m, "ld_decode")
            /\ UNCHANGED <<mState, sess>>
  /\ UNCHANGED <<lmLock, newLock, s0, rpc, rret, faults, args, cmd>>

\* json Decode of the opened file; on error Manager.Load unlocks and returns it
LoadDecode(m) ==
  /\ pc[m] = "ld_decode"
  /\ SetFS(dir, [fd EXCEPT ![m] = NoFile], rfd, data)
  /\ \E ok \in Outcomes :
       LET d == Decode(data[fd[m]]) IN
       IF ~ok \/ d = DecodeError THEN
            /\ LoadFailed(m, IF ok THEN "corrupt" ELSE "io")
            /\ UNCHANGED <<mState, sess>>
       ELSE /\ mState' = [mState EXCEPT ![m] = d]
            /\ sess' = [sess EXCEPT ![m] = (call[m] = "Load")]
            /\ Return(m, "ok")
  /\ UNCHANGED <<lmLock, newLock, s0, rpc, rret, faults, args, cmd>>

\* ------------------------------------------------- LockManager.Unlock
\* Unlock returns r. On the error path of Manager.Load the result is dropped
\* and the error of Load is returned. A caller whose session ends with a
\* successful Close or Unlock either keeps the Manager (exits = FALSE) or is a
\* command that returns and drops it (exits = TRUE: BuildCommand.Run,
\* StateRmCommand.Run create one Manager per invocation).
UnlockDone(m, r, exits) ==
  /\ pc' = [pc EXCEPT ![m] = "idle"]
  /\ UNCHANGED newLock
  /\ UNCHANGED call
  /\ IF call[m] = "Load"
       THEN UNCHANGED <<ret, mState, sess, s0>>
       ELSE /\ ret' = [ret EXCEPT ![m] = r]
            /\ sess' = [sess EXCEPT ![m] = IF r = "ok" THEN FALSE ELSE @]
            /\ mState' = [mState EXCEPT ![m] = IF r = "ok" /\ exits THEN NilState ELSE @]
            /\ s0' = [s0 EXCEPT ![m] = IF r = "ok" /\ exits THEN 0 ELSE @]

\* Manager.Unlock is entered
ManagerUnlock(m) ==
  /\ pc[m] = "idle"
  /\ Enter(m, "Unlock", "ul_read")
  /\ SameFS
  /\ UNCHANGED <<lmLock, newLock, mState, s0, sess, rpc, rret, faults, args, cmd>>

\* Unlock: nothing to do without a lock; else readLock and compare the id
UnlockRead(m, exits) ==
  /\ pc[m] = "ul_read"
  /\ SameFS
  /\ IF lmLock[m] = NoLock THEN UnlockDone(m, "ok", exits)
     ELSE \E ok \in Outcomes :
            LET c == ContentAt(LockPath) IN
            IF ~ok \/ c.kind # "lock" THEN UnlockDone(m, "io", exits)
            ELSE IF c.id # lmLock[m] THEN UnlockDone(m, "stolen", exits)
            ELSE /\ Goto(m, "ul_remove")
                 /\ UNCHANGED <<newLock, mState, sess, s0>>
  /\ UNCHANGED <<lmLock, rpc, rret, faults, args, cmd>>

UnlockRemove_KeepFile(m, exits) ==
  /\ pc[m] = "ul_remove"
  /\ SameFS
  /\ lmLock' = [lmLock EXCEPT ![m] = NoLock]
  /\ UnlockDone(m, "ok", exits)
  /\ UNCHANGED <<rpc, rret, faults, args, cmd>>

\* Unlock: os.Remove(lockPath) (a missing file is fine), then lm.lock = nil
UnlockRemove(m, exits) ==
  /\ pc[m] = "ul_remove"
  /\ \E ok \in Outcomes :
       IF ok THEN /\ SetFS([dir EXCEPT ![LockPath] = NoFile], fd, rfd, data)
                  /\ lmLock' = [lmLock EXCEPT ![m] = NoLock]
                  /\ UnlockDone(m, "ok", exits)
             ELSE /\ SameFS
                  /\ UNCHANGED lmLock
                  /\ UnlockDone(m, "io", exits)
  /\ UNCHANGED <<rpc, rret, faults, args, cmd>>

\* ------------------------------------------------------------ State.Save
\* sessions of free callers are cut off at MaxSerial; a command run makes a
\* bounded number of saves by itself
SerialBelowCap(m) == cmd.kind = "none" => mState[m].serial < MaxSerial

StateSave_NoIncrement(m, c) ==
  /\ pc[m] = "idle"
  /\ mState[m].kind = "doc"
  /\ SerialBelowCap(m)
  /\ UNCHANGED mState
  /\ \E ok \in Outcomes :
       IF ok THEN /\ Enter(m, c, "sv_create")
                  /\ s0' = [s0 EXCEPT ![m] = mState[m].serial]
             ELSE /\ Finish(m, c, "io")
                  /\ s0' = [s0 EXCEPT ![m] = 0]
  /\ SameFS
  /\ UNCHANGED <<lmLock, newLock, sess, rpc, rret, faults, args, cmd>>

\* Save is entered: s.Serial++, then os.MkdirAll of the directory
StateSave(m, c) ==
  /\ pc[m] = "idle"
  /\ mState[m].kind = "doc"
  /\ SerialBelowCap(m)
  /\ mState' = [mState EXCEPT ![m].serial = @ + 1]
  /\ \E ok \in Outcomes :
       IF ok THEN /\ Enter(m, c, "sv_create")
                  /\ s0' = [s0 EXCEPT ![m] = mState[m].serial]
             ELSE /\ Finish(m, c, "io")
                  /\ s0' = [s0 EXCEPT ![m] = 0]
  /\ SameFS
  /\ UNCHANGED <<lmLock, newLock, sess, rpc, rret, faults, args, cmd>>

\* Save returns an error
SaveFailed(m) ==
  /\ Return(m, "io")
  /\ s0' = [s0 EXCEPT ![m] = 0]

\* Manager.Save: refuses without a loaded document, else State.Save
ManagerSave(m) ==
  IF mState[m] = NilState
    THEN /\ pc[m] = "idle"
         /\ Finish(m, "Save", "nostate")
         /\ SameFS
         /\ UNCHANGED <<lmLock, newLock, mState, s0, sess, rpc, rret, faults, args, cmd>>
    ELSE StateSave(m, "Save")

ManagerClose_NoSave(m) ==
  /\ pc[m] = "idle"
  /\ Enter(m, "Close", "ul_read")
  /\ SameFS
  /\ UNCHANGED <<lmLock, newLock, mState, s0, sess, rpc, rret, faults, args, cmd>>

\* Manager.Close: Save when a document is loaded, then Unlock
ManagerClose(m) ==
  IF mState[m] = NilState
    THEN /\ pc[m] = "idle"
         /\ Enter(m, "Close", "ul_read")
         /\ SameFS
         /\ UNCHANGED <<lmLock, newLock, mState, s0, sess, rpc, rret, faults, args, cmd>>
    ELSE StateSave(m, "Close")

\* Save: os.Create(tmpPath) makes the file or truncates the existing one
SaveCreate(m) ==
  /\ pc[m] = "sv_create"
  /\ \E ok \in Outcomes :
       IF ~ok THEN /\ SaveFailed(m)
                   /\ SameFS
       ELSE LET i == IF dir[TmpPath] = NoFile THEN FreeInode(dir, fd, rfd) ELSE dir[TmpPath] IN
            /\ SetFS([dir EXCEPT ![TmpPath] = i], [fd EXCEPT ![m] = i], rfd,
                     [data EXCEPT ![i] = EmptyData])
            /\ Goto(m, "sv_encode")
            /\ UNCHANGED s0
  /\ UNCHANGED <<lmLock, newLock, mState, sess, rpc, rret, faults, args, cmd>>

SaveEncode_IgnoreError(m) ==
  /\ pc[m] = "sv_encode"
  /\ \E ok \in Outcomes :
       IF ok THEN /\ SetFS(dir, fd, rfd, [data EXCEPT ![fd[m]] = Encode(mState[m])])
                  /\ Goto(m, "sv_close")
             ELSE /\ SameFS
                  /\ Goto(m, "sv_close")
  /\ UNCHANGED <<lmLock, newLock, mState, s0, sess, rpc, rret, faults, args, cmd>>

\* Save: encoder.Encode(s) into the temp file; on failure close and remove it
SaveEncode(m) ==
  /\ pc[m] = "sv_encode"
  /\ \E ok \in Outcomes :
       IF ok THEN /\ SetFS(dir, fd, rfd, [data EXCEPT ![fd[m]] = Encode(mState[m])])
                  /\ Goto(m, "sv_close")
             ELSE /\ SetFS(dir, [fd EXCEPT ![m] = NoFile], rfd, data)
                  /\ Goto(m, "sv_rm")
  /\ UNCHANGED <<lmLock, newLock, mState, s0, sess, rpc, rret, faults, args, cmd>>

\* Save: f.Close() of the temp file
SaveClose(m) ==
  /\ pc[m] = "sv_close"
  /\ SetFS(dir, [fd EXCEPT ![m] = NoFile], rfd, data)
  /\ \E ok \in Outcomes : Goto(m, IF ok THEN "sv_rename" ELSE "sv_rm")
  /\ UNCHANGED <<lmLock, newLock, mState, s0, sess, rpc, rret, faults, args, cmd>>

\* Save: os.Rename(tmpPath, path) and return nil; Close continues with Unlock
SaveRename(m) ==
  /\ pc[m] = "sv_rename"
  /\ \E ok \in Outcomes :
       IF ok /\ dir[TmpPath] # NoFile
         THEN /\ SetFS([[dir EXCEPT ![TmpPath] = NoFile] EXCEPT ![StatePath] = dir[TmpPath]],
                       fd, rfd, data)
              /\ s0' = [s0 EXCEPT ![m] = 0]
              /\ IF call[m] = "Close" THEN Goto(m, "ul_read") ELSE Return(m, "ok")
         ELSE /\ SameFS
              /\ Goto(m, "sv_rm")
              /\ UNCHANGED s0
  /\ UNCHANGED <<lmLock, newLock, mState, sess, rpc, rret, faults, args, cmd>>

SaveRemoveTmp_DropLock(m) ==
  /\ pc[m] = "sv_rm"
  /\ SetFS([[dir EXCEPT ![TmpPath] = NoFile] EXCEPT ![LockPath] = NoFile], fd, rfd, data)
  /\ SaveFailed(m)
  /\ UNCHANGED <<lmLock, newLock, mState, sess, rpc, rret, faults, args, cmd>>

\* Save: os.Remove(tmpPath) on the error paths (result ignored), return the error
SaveRemoveTmp(m) ==
  /\ pc[m] = "sv_rm"
  /\ \E ok \in Outcomes :
       IF ok THEN SetFS([dir EXCEPT ![TmpPath] = NoFile], fd, rfd, data)
             ELSE SameFS
  /\ SaveFailed(m)
  /\ UNCHANGED <<lmLock, newLock, mState, sess, rpc, rret, faults, args, cmd>>

\* ------------------------------------------------------ document mutators
CompleteBuild == [status |-> "complete"]

\* State.SetBuild: s.Builds[name] = build
SetBuild(m, n) ==
  /\ pc[m] = "idle"
  /\ mState[m].kind = "doc"
  /\ mState' = [mState EXCEPT ![m].builds =
                  [x \in (DOMAIN @) \cup {n} |-> IF x = n THEN CompleteBuild ELSE @[x]]]
  /\ call' = [call EXCEPT ![m] = "SetBuild"]
  /\ SameFS
  /\ UNCHANGED <<pc, lmLock, newLock, ret, s0, sess, rpc, rret, faults, args, cmd>>

\* State.RemoveBuild: delete(s.Builds, name)
RemoveBuild(m, n) ==
  /\ pc[m] = "idle"
  /\ mState[m].kind = "doc"
  /\ mState' = [mState EXCEPT ![m].builds = [x \in (DOMAIN @) \ {n} |-> @[x]]]
  /\ call' = [call EXCEPT ![m] = "RemoveBuild"]
  /\ SameFS
  /\ UNCHANGED <<pc, lmLock, newLock, ret, s0, sess, rpc, rret, faults, args, cmd>>

UpdateTemplateInputs_HashOnly(m, h, V, F) ==
  /\ pc[m] = "idle"
  /\ mState' = [mState EXCEPT ![m] = IF @ = NilState THEN @ ELSE [@ EXCEPT !.template.hash = h]]
  /\ call' = [call EXCEPT ![m] = "UpdateTemplateInputs"]
  /\ SameFS
  /\ UNCHANGED <<pc, lmLock, newLock, ret, s0, sess, rpc, rret, faults, args, cmd>>

\* Manager.UpdateTemplateInputs: nothing without a document, else the
\* template inputs of the document are replaced
UpdateTemplateInputs(m, h, V, F) ==
  /\ pc[m] = "idle"
  /\ mState' = [mState EXCEPT ![m] = IF @ = NilState THEN @ ELSE [@ EXCEPT !.template = [hash |-> h, variables |-> V, files |-> F]]]
  /\ call' = [call EXCEPT ![m] = "UpdateTemplateInputs"]
  /\ SameFS
  /\ UNCHANGED <<pc, lmLock, newLock, ret, s0, sess, rpc, rret, faults, args, cmd>>

\* m.state.Template.Variables[k]: a key that is not in the map reads as ""
Lookup(S, k) == IF k \in DOMAIN S THEN S[k] ELSE ""

MapChanged_NoLength(S, G) == \E k \in DOMAIN G : Lookup(S, k) # G[k]

\* InputsChanged, one mapping: the lengths differ, or some key of the given
\* mapping has another value in the stored one
MapChanged(S, G) ==
  \/ Cardinality(DOMAIN S) # Cardinality(DOMAIN G)
  \/ \E k \in DOMAIN G : Lookup(S, k) # G[k]

\* Manager.InputsChanged on the manager's document st
InputsChanged(st, h, V, F) ==
  IF st = NilState THEN TRUE
  ELSE \/ st.template.hash # h
       \/ MapChanged(st.template.variables, V)
       \/ MapChanged(st.template.files, F)

\* a caller asks Manager.InputsChanged(h, V, F)
CallInputsChanged(m, h, V, F) ==
  /\ pc[m] = "idle"
  /\ call' = [call EXCEPT ![m] = "InputsChanged"]
  /\ ret' = [ret EXCEPT ![m] = IF InputsChanged(mState[m], h, V, F) THEN "changed" ELSE "unchanged"]
  /\ args' = [kind |-> "inputs", by |-> m, hash |-> h, variables |-> V, files |-> F]
  /\ SameFS
  /\ UNCHANGED <<pc, lmLock, newLock, mState, s0, sess, rpc, rret, faults, cmd>>

\* ------------------------------------------- lock-free reader: Load(path)
\* a reader that would refuse while a lock file exists
ReadOpen_ChecksLock ==
  /\ rpc = "idle"
  /\ IF dir[LockPath] # NoFile
       THEN /\ rret' = [kind |-> "locked"]
            /\ SameFS
            /\ UNCHANGED rpc
       ELSE \E ok \in Outcomes :
              IF ~ok THEN /\ rret' = [kind |-> "ioerr"]
                          /\ SameFS
                          /\ UNCHANGED rpc
              ELSE IF dir[StatePath] = NoFile
                THEN /\ rret' = Absent
                     /\ SameFS
                     /\ UNCHANGED rpc
                ELSE /\ SetFS(dir, fd, dir[StatePath], data)
                     /\ rpc' = "opened"
                     /\ rret' = [kind |-> "none"]
  /\ UNCHANGED <<pc, call, lmLock, newLock, mState, ret, s0, sess, faults, args, cmd>>

ReadOpen ==
  /\ rpc = "idle"
  /\ \E ok \in Outcomes :
       IF ~ok THEN /\ rret' = [kind |-> "ioerr"]
                   /\ SameFS
                   /\ UNCHANGED rpc
       ELSE IF dir[StatePath] = NoFile
         THEN /\ rret' = Absent
              /\ SameFS
              /\ UNCHANGED rpc
         ELSE /\ SetFS(dir, fd, dir[StatePath], data)
              /\ rpc' = "opened"
              /\ rret' = [kind |-> "none"]
  /\ UNCHANGED <<pc, call, lmLock, newLock, mState, ret, s0, sess, faults, args, cmd>>

ReadDecode ==
  /\ rpc = "opened"
  /\ rret' = [kind |-> Decode(data[rfd]).kind]
  /\ rpc' = "idle"
  /\ SetFS(dir, fd, NoFile, data)
  /\ UNCHANGED <<pc, call, lmLock, newLock, mState, ret, s0, sess, faults, args, cmd>>

\* ------------------------------------------------ callers without a Manager
\* a writer of the stress test calls Load(path) directly ...
DirectLoad(m) ==
  /\ pc[m] = "idle"
  /\ Enter(m, "DLoad", "ld_open")
  /\ SameFS
  /\ UNCHANGED <<lmLock, newLock, mState, s0, sess, rpc, rret, faults, args, cmd>>

\* ... and State.Save(path) on the document it loaded
DirectSave(m) == StateSave(m, "DSave")

\* ------------------------------------------------ process death and recovery
\* the process stops: its memory and handles are gone, the files stay
Crash(m) ==
  /\ pc[m] # "crashed"
  /\ pc' = [pc EXCEPT ![m] = "crashed"]
  /\ SetFS(dir, [fd EXCEPT ![m] = NoFile], rfd, data)
  /\ call' = [call EXCEPT ![m] = "none"]
  /\ lmLock' = [lmLock EXCEPT ![m] = NoLock]
  /\ newLock' = [newLock EXCEPT ![m] = NoLock]
  /\ mState' = [mState EXCEPT ![m] = NilState]
  /\ ret' = [ret EXCEPT ![m] = "none"]
  /\ s0' = [s0 EXCEPT ![m] = 0]
  /\ sess' = [sess EXCEPT ![m] = FALSE]
  /\ UNCHANGED <<rpc, rret, faults, args, cmd>>

\* NewManager in a new process
NewManager(m) ==
  /\ pc[m] = "crashed"
  /\ pc' = [pc EXCEPT ![m] = "idle"]
  /\ SameFS
  /\ UNCHANGED <<call, lmLock, newLock, mState, ret, s0, sess, rpc, rret, faults, args, cmd>>

ForceUnlock_HolderOnly(m) ==
  /\ pc[m] = "idle"
  /\ \E ok \in Outcomes :
       IF ok THEN /\ IF lmLock[m] = NoLock THEN SameFS
                     ELSE SetFS([dir EXCEPT ![LockPath] = NoFile], fd, rfd, data)
                  /\ lmLock' = [lmLock EXCEPT ![m] = NoLock]
                  /\ Finish(m, "ForceUnlock", "ok")
             ELSE /\ SameFS
                  /\ UNCHANGED lmLock
                  /\ Finish(m, "ForceUnlock", "io")
  /\ UNCHANGED <<newLock, mState, s0, sess, rpc, rret, faults, args, cmd>>

\* LockManager.ForceUnlock: remove the lock file whoever owns it
ForceUnlock(m) ==
  /\ pc[m] = "idle"
  /\ \E ok \in Outcomes :
       IF ok THEN /\ SetFS([dir EXCEPT ![LockPath] = NoFile], fd, rfd, data)
                  /\ lmLock' = [lmLock EXCEPT ![m] = NoLock]
                  /\ Finish(m, "ForceUnlock", "ok")
             ELSE /\ SameFS
                  /\ UNCHANGED lmLock
                  /\ Finish(m, "ForceUnlock", "io")
  /\ UNCHANGED <<newLock, mState, s0, sess, rpc, rret, faults, args, cmd>>

\* ----------------------------------------------------------- specifications
\* the steps inside an operation, taken by whoever is inside it
Steps(m, exits) ==
  \/ LockCreate(m)
  \/ LockWrite(m)
  \/ LockClose(m)
  \/ LockRemove(m)
  \/ LoadOpen(m)
  \/ LoadDecode(m)
  \/ UnlockRead(m, exits)
  \/ UnlockRemove(m, exits)
  \/ SaveCreate(m)
  \/ SaveEncode(m)
  \/ SaveClose(m)
  \/ SaveRename(m)
  \/ SaveRemoveTmp(m)

\* BuildCommand.Run passes the variables of the build and no files
BuildVars == [k \in {"a"} |-> "x"]

\* callers that keep the session protocol: open, then mutate and save while
\* the session lasts, then close or unlock (BuildCommand.Run, StateRmCommand.Run)
Session(m) ==
  \/ ~sess[m] /\ ManagerLoad(m)
  \/ sess[m] /\ ManagerSave(m)
  \/ sess[m] /\ ManagerClose(m)
  \/ sess[m] /\ ManagerUnlock(m)
  \/ sess[m] /\ \E n \in BuildNames : SetBuild(m, n)
  \/ sess[m] /\ \E n \in BuildNames : RemoveBuild(m, n)
  \/ sess[m] /\ \E h \in TemplateHashes : UpdateTemplateInputs(m, h, BuildVars, NoEntries)

Next ==
  \/ \E m \in Managers : Session(m)
  \/ \E m \in Managers : Steps(m, TRUE)

Spec == Init /\ [][Next]_vars

NextRead ==
  \/ Next
  \/ ReadOpen
  \/ ReadDecode

SpecRead == Init /\ [][NextRead]_vars

SpecOtherVersion == InitOtherVersion /\ [][Next]_vars

\* a lock is abandoned when no live process holds it or is taking it
Abandoned ==
  /\ dir[LockPath] # NoFile
  /\ \A k \in Managers : pc[k] \in {"idle", "crashed"} /\ lmLock[k] = NoLock

NextCrash ==
  \/ Next
  \/ \E m \in Managers : Crash(m)
  \/ \E m \in Managers : NewManager(m)
  \/ \E m \in Managers : Abandoned /\ ForceUnlock(m)

SpecCrash == Init /\ [][NextCrash]_vars

\* lock files somebody else left at the lock path: created but never written,
\* not JSON, JSON without an id ("" never equals a uuid), a dead holder's lock
LeftLockFiles ==
  {EmptyData, TruncData, [kind |-> "lock", id |-> NoLock], [kind |-> "lock", id |-> 1]}

\* as InitWith, with the lock path absent or holding a left-over file
InitLeft(files, locks) ==
  /\ \E c \in files, l \in locks :
       /\ dir = [p \in Paths |-> IF p = StatePath /\ c # Absent THEN 1
                                 ELSE IF p = LockPath /\ l # Absent THEN 2 ELSE NoFile]
       /\ data = [i \in Inodes |-> IF i = 1 /\ c # Absent THEN c
                                   ELSE IF i = 2 /\ l # Absent THEN l ELSE FreeData]
  /\ pc = [m \in Managers |-> "idle"]
  /\ call = [m \in Managers |-> "none"]
  /\ fd = [m \in Managers |-> NoFile]
  /\ lmLock = [m \in Managers |-> NoLock]
  /\ newLock = [m \in Managers |-> NoLock]
  /\ mState = [m \in Managers |-> NilState]
  /\ ret = [m \in Managers |-> "none"]
  /\ s0 = [m \in Managers |-> 0]
  /\ sess = [m \in Managers |-> FALSE]
  /\ rpc = "idle"
  /\ rfd = NoFile
  /\ rret = [kind |-> "none"]
  /\ faults \in BOOLEAN
  /\ args = NoArgs
  /\ cmd = NoCmd

InitForce == InitLeft(InitFiles, {Absent} \cup LeftLockFiles)

\* callers that only take and release the lock (open a session, end it with
\* Unlock), while ForceUnlock is open to every caller at any time, lock held
\* by a live manager or not (TestLockStress_AbandonedLock and its like)
NextForce ==
  \/ \E m \in Managers : ~sess[m] /\ ManagerLoad(m)
  \/ \E m \in Managers : sess[m] /\ ManagerUnlock(m)
  \/ \E m \in Managers : ForceUnlock(m)
  \/ \E m \in Managers : LockCreate(m)
  \/ \E m \in Managers : LockWrite(m)
  \/ \E m \in Managers : LockClose(m)
  \/ \E m \in Managers : LockRemove(m)
  \/ \E m \in Managers : LoadOpen(m)
  \/ \E m \in Managers : LoadDecode(m)
  \/ \E m \in Managers : UnlockRead(m, TRUE)
  \/ \E m \in Managers : UnlockRemove(m, TRUE)

SpecForce == InitForce /\ [][NextForce]_vars

\* callers that keep their Manager after the session and call Load, Save,
\* Close and Unlock on it in any order (none of these methods checks that a
\* session is open), on a path with a saved document and a file system that
\* works
NextAnyOrder ==
  \/ \E m \in Managers : ManagerLoad(m)
  \/ \E m \in Managers : ManagerSave(m)
  \/ \E m \in Managers : ManagerClose(m)
  \/ \E m \in Managers : ManagerUnlock(m)
  \/ \E m \in Managers : LockCreate(m)
  \/ \E m \in Managers : LockWrite(m)
  \/ \E m \in Managers : LockClose(m)
  \/ \E m \in Managers : LoadOpen(m)
  \/ \E m \in Managers : LoadDecode(m)
  \/ \E m \in Managers : UnlockRead(m, FALSE)
  \/ \E m \in Managers : UnlockRemove(m, FALSE)
  \/ \E m \in Managers : SaveCreate(m)
  \/ \E m \in Managers : SaveEncode(m)
  \/ \E m \in Managers : SaveClose(m)
  \/ \E m \in Managers : SaveRename(m)
  \/ \E m \in Managers : SaveRemoveTmp(m)

InitAnyOrder == InitWith({Encode(InitDoc)}) /\ ~faults

SpecAnyOrder == InitAnyOrder /\ [][NextAnyOrder]_vars

\* change detection: manager 1 is inside a session on a document with any
\* stored template inputs, manager 2 has loaded nothing; callers ask
\* InputsChanged and set the inputs with any hash and mappings
FileMaps == {F \in Maps : DOMAIN F \subseteq {"a"}}
Templates == [hash : Hashes, variables : Maps, files : FileMaps]

InitInputs ==
  /\ dir = [p \in Paths |-> IF p = StatePath THEN 1 ELSE IF p = LockPath THEN 2 ELSE NoFile]
  /\ data = [i \in Inodes |-> IF i = 1 THEN Encode(InitDoc)
                              ELSE IF i = 2 THEN [kind |-> "lock", id |-> 1] ELSE FreeData]
  /\ pc = [m \in Managers |-> "idle"]
  /\ call = [m \in Managers |-> IF m = 1 THEN "Load" ELSE "none"]
  /\ fd = [m \in Managers |-> NoFile]
  /\ lmLock = [m \in Managers |-> IF m = 1 THEN 1 ELSE NoLock]
  /\ newLock = [m \in Managers |-> NoLock]
  /\ \E t \in Templates :
       mState = [m \in Managers |-> IF m = 1 THEN [InitDoc EXCEPT !.template = t] ELSE NilState]
  /\ ret = [m \in Managers |-> IF m = 1 THEN "ok" ELSE "none"]
  /\ s0 = [m \in Managers |-> 0]
  /\ sess = [m \in Managers |-> m = 1]
  /\ rpc = "idle"
  /\ rfd = NoFile
  /\ rret = [kind |-> "none"]
  /\ faults = FALSE
  /\ args = NoArgs
  /\ cmd = NoCmd

NextInputs ==
  \/ \E m \in Managers, h \in Hashes, V \in Maps, F \in FileMaps : CallInputsChanged(m, h, V, F)
  \/ \E m \in Managers, h \in Hashes, V \in Maps, F \in FileMaps : UpdateTemplateInputs(m, h, V, F)

SpecInputs == InitInputs /\ [][NextInputs]_vars

\* ------------------------------------------------------------ build records
\* Status of a provisioner
Statuses == {"pending", "running", "complete", "failed", "skipped"}
StepSeqs == UNION {[1..n -> Statuses] : n \in 0..MaxSteps}
NoIndex == -1

RECURSIVE NextPendingFrom_PendingOnly(_, _)
NextPendingFrom_PendingOnly(P, i) ==
  IF i > Len(P) THEN Len(P)
  ELSE IF P[i] = "pending" THEN i - 1
  ELSE NextPendingFrom_PendingOnly(P, i + 1)

NextPendingProvisioner_PendingOnly(P) == NextPendingFrom_PendingOnly(P, 1)

\* the loop of NextPendingProvisioner from the i-th provisioner on (the
\* index it returns counts from 0)
RECURSIVE NextPendingFrom(_, _)
NextPendingFrom(P, i) ==
  IF i > Len(P) THEN Len(P)
  ELSE IF P[i] = "pending" \/ P[i] = "failed" THEN i - 1
  ELSE NextPendingFrom(P, i + 1)

\* Build.NextPendingProvisioner on the provisioners P of a build
NextPendingProvisioner(P) == NextPendingFrom(P, 1)

\* everything but the command
world == <<dir, data, pc, call, fd, lmLock, newLock, mState, ret, s0, sess, rpc, rfd, rret, faults, args>>

\* no file, no session, a file system that works, and the command c
InitCmd(c) ==
  /\ dir = [p \in Paths |-> NoFile]
  /\ data = [i \in Inodes |-> FreeData]
  /\ pc = [m \in Managers |-> "idle"]
  /\ call = [m \in Managers |-> "none"]
  /\ fd = [m \in Managers |-> NoFile]
  /\ lmLock = [m \in Managers |-> NoLock]
  /\ newLock = [m \in Managers |-> NoLock]
  /\ mState = [m \in Managers |-> NilState]
  /\ ret = [m \in Managers |-> "none"]
  /\ s0 = [m \in Managers |-> 0]
  /\ sess = [m \in Managers |-> FALSE]
  /\ rpc = "idle"
  /\ rfd = NoFile
  /\ rret = [kind |-> "none"]
  /\ faults = FALSE
  /\ args = NoArgs
  /\ cmd = c

\* a caller asks a build with any provisioner statuses for its next pending one
InitSteps == \E P \in StepSeqs : InitCmd([kind |-> "steps", provisioners |-> P, next |-> NoIndex])

CallNextPendingProvisioner ==
  /\ cmd.kind = "steps"
  /\ cmd.next = NoIndex
  /\ cmd' = [cmd EXCEPT !.next = NextPendingProvisioner(cmd.provisioners)]
  /\ UNCHANGED world

NextSteps == CallNextPendingProvisioner

SpecSteps == InitSteps /\ [][NextSteps]_vars

\* ------------------------------------------------------------- fingerprint
\* the orders in which a range loop may visit the keys of the map M
Orders(M) ==
  {o \in [1..Cardinality(DOMAIN M) -> DOMAIN M] :
     \A i, j \in 1..Cardinality(DOMAIN M) : i # j => o[i] # o[j]}

\* io.WriteString(h, k); io.WriteString(h, v) for the keys of M from the
\* i-th of the order o on: the bytes written to the hash
RECURSIVE Written(_, _, _)
Written(M, o, i) ==
  IF i > Len(o) THEN "" ELSE (o[i] \o M[o[i]]) \o Written(M, o, i + 1)

\* State.ComputeFingerprint on the template inputs t, the range loops
\* visiting the variables in the order ov and the files in the order of;
\* the digest stands for the bytes it was computed from
ComputeFingerprint(t, ov, of) ==
  [sha256 |-> (t.hash \o Written(t.variables, ov, 1)) \o Written(t.files, of, 1)]

\* a caller computes the fingerprint of one document twice
InitFingerprint == \E t \in Templates : InitCmd([kind |-> "fp", template |-> t, fps |-> <<>>])

CallComputeFingerprint ==
  /\ cmd.kind = "fp"
  /\ Len(cmd.fps) < 2
  /\ \E ov \in Orders(cmd.template.variables), of \in Orders(cmd.template.files) :
       cmd' = [cmd EXCEPT !.fps = Append(@, ComputeFingerprint(cmd.template, ov, of))]
  /\ UNCHANGED world

NextFingerprint == CallComputeFingerprint

SpecFingerprint == InitFingerprint /\ [][NextFingerprint]_vars

\* ------------------------------------------------- StatefulBuild (wrapper)
NumProvisioners == 3
NoInstance == [kind |-> "nil"]
Now == 1

\* what the engine hands back: artifacts with id, builder id and files
Art1 == [id |-> "ami-1", builderid |-> "mock", files |-> <<"f1">>]
Art2 == [id |-> "ami-2", builderid |-> "mock", files |-> <<>>]
EngineArtifacts == {<<Art1>>, <<Art2, Art1>>}
EngineMessage == "boom"
StepMessage == "Simulated failure!"

\* artifactsToState: ID, BuilderID and Files are copied, Type stays empty
ArtifactsToState(arts) ==
  [i \in 1..Len(arts) |-> [id |-> arts[i].id, builderid |-> arts[i].builderid,
                           type |-> "", files |-> arts[i].files]]

LoadArtifactsFromState_DropFiles(b) ==
  [i \in 1..Len(b.artifacts) |-> [id |-> b.artifacts[i].id,
                                  builderid |-> b.artifacts[i].builderid,
                                  files |-> <<>>]]

\* loadArtifactsFromState: one CachedArtifact per ArtifactState, in order
LoadArtifactsFromState(b) ==
  [i \in 1..Len(b.artifacts) |-> [id |-> b.artifacts[i].id,
                                  builderid |-> b.artifacts[i].builderid,
                                  files |-> b.artifacts[i].files]]

\* the Build that Run makes when the document has none under the name
FreshBuild ==
  [status |-> "pending", instance |-> NoInstance,
   provisioners |-> [i \in 1..NumProvisioners |-> "pending"],
   errors |-> [i \in 1..NumProvisioners |-> ""],
   artifacts |-> <<>>, error |-> "", completed |-> 0]

IsComplete(b) == b.status = "complete"
HasInstance(b) == b.instance # NoInstance /\ b.instance.id # ""

\* the stub: inputs never count as changed since the last build
InputsChangedSinceLastBuild == FALSE

ResumeFailed_KeepInstance(b) == b

\* Run, resume failed: the instance is dropped and the status is pending again
ResumeFailed(b) == [b EXCEPT !.instance = NoInstance, !.status = "pending"]

RunFresh_KeepStatus(b) == b

\* runFreshBuild, before the first Save: the status becomes creating
RunFresh(b) == [b EXCEPT !.status = "creating"]

\* runFreshBuild after the engine failed with the message e
EngineFailed(b, e) == [b EXCEPT !.status = "failed", !.error = e]

\* runFreshBuild after the engine returned the artifacts arts
EngineSucceeded(b, arts) ==
  [b EXCEPT !.status = "complete", !.completed = Now, !.artifacts = ArtifactsToState(arts)]

\* State.SetBuild on a document whose Builds is a nil map: the assignment to
\* an entry of a nil map panics (GetBuild reads nil, RemoveBuild does nothing)
SetBuildPanics(doc) == doc.nilBuilds
\* exit code of a Go program that ends in a panic
PanicExit == 2

\* s.Builds[n] = b
WithBuild(doc, n, b) ==
  [doc EXCEPT !.builds = [x \in (DOMAIN @) \cup {n} |-> IF x = n THEN b ELSE @[x]]]

\* ------------------------------------------------- documents of earlier runs
\* the document a successful run of the build command leaves (b1 complete,
\* its provisioners as Run made them), the same with a stale failed build b2,
\* and the document of a run that failed in its second step with the
\* instance kept
BuiltB1 == [FreshBuild EXCEPT !.status = "complete", !.completed = Now,
                              !.artifacts = ArtifactsToState(<<Art2, Art1>>)]
FailedB2 == [FreshBuild EXCEPT !.status = "failed", !.error = EngineMessage]
FailedStep2 ==
  [FreshBuild EXCEPT !.status = "failed", !.error = "Provisioner 2 failed",
                     !.instance = [id |-> "i-1", keep |-> TRUE],
                     !.provisioners = <<"complete", "failed", "pending">>,
                     !.errors = <<"", StepMessage, "">>]

DocWith(serial, t, builds) == [New(1) EXCEPT !.serial = serial, !.template = t, !.builds = builds]
BuildTemplate == [hash |-> "h1", variables |-> BuildVars, files |-> NoEntries]

DocBuilt == DocWith(5, BuildTemplate, [n \in {"b1"} |-> BuiltB1])
DocBuiltStale == DocWith(5, BuildTemplate, [n \in {"b1", "b2"} |-> IF n = "b1" THEN BuiltB1 ELSE FailedB2])
DocFailedStep2 == DocWith(4, ZeroTemplate, [n \in {"b1"} |-> FailedStep2])

\* as InitCmd, with the content c at the state path and faults open
InitFileCmd(c, k) ==
  /\ dir = [p \in Paths |-> IF p = StatePath /\ c # Absent THEN 1 ELSE NoFile]
  /\ data = [i \in Inodes |-> IF i = 1 /\ c # Absent THEN c ELSE FreeData]
  /\ pc = [m \in Managers |-> "idle"]
  /\ call = [m \in Managers |-> "none"]
  /\ fd = [m \in Managers |-> NoFile]
  /\ lmLock = [m \in Managers |-> NoLock]
  /\ newLock = [m \in Managers |-> NoLock]
  /\ mState = [m \in Managers |-> NilState]
  /\ ret = [m \in Managers |-> "none"]
  /\ s0 = [m \in Managers |-> 0]
  /\ sess = [m \in Managers |-> FALSE]
  /\ rpc = "idle"
  /\ rfd = NoFile
  /\ rret = [kind |-> "none"]
  /\ faults \in BOOLEAN
  /\ args = NoArgs
  /\ cmd = k

\* ------------------------------------------------------- BuildCommand.Run
\* the Manager of the command (one per invocation)
M == 1
NoExit == -1
NoResult == [kind |-> "none"]
SavePoints == {"save_init", "save_creating", "save_failed", "save_complete"}

\* a step of the command itself: its position and data become k, the
\* document of its Manager becomes st, and c marks what the Manager did last
CmdStep(k, st, c) ==
  /\ cmd' = k
  /\ mState' = [mState EXCEPT ![M] = st]
  /\ call' = [call EXCEPT ![M] = c]
  /\ SameFS
  /\ UNCHANGED <<pc, lmLock, newLock, ret, s0, sess, rpc, rret, faults, args>>

\* the build command on the template hash h, variables V and builds T, over
\* the state file c
BuildCmd(c, h, V, T) ==
  [kind |-> "build", pc |-> "load", hash |-> h, vars |-> V, tbuilds |-> T, file0 |-> c,
   i |-> 0, changed |-> FALSE, res |-> NoResult, out |-> NoResult, engine |-> <<>>,
   exit |-> NoExit]

\* stateManager.Load()
BuildLoad ==
  /\ cmd.kind = "build" /\ cmd.pc = "load" /\ call[M] = "none"
  /\ ManagerLoad(M)

\* Load returned: on an error exit 1; else Close is deferred and the template
\* is hashed (ComputeFileHash can fail: exit 1 through the deferred Close)
BuildLoaded ==
  /\ cmd.kind = "build" /\ cmd.pc = "load" /\ pc[M] = "idle" /\ call[M] = "Load"
  /\ IF ret[M] # "ok"
       THEN CmdStep([cmd EXCEPT !.pc = "done", !.exit = 1], mState[M], "Load")
       ELSE \E ok \in Outcomes :
              CmdStep([cmd EXCEPT !.pc = IF ok THEN "inputs" ELSE "close",
                                  !.exit = IF ok THEN @ ELSE 1], mState[M], "Load")

\* stateManager.InputsChanged(templateHash, variables, no files)
BuildInputsChanged ==
  /\ cmd.kind = "build" /\ cmd.pc = "inputs" /\ call[M] = "Load"
  /\ CallInputsChanged(M, cmd.hash, cmd.vars, NoEntries)

\* inputs unchanged and every build of the document complete (and there is
\* one): nothing to do, exit 0; else go on
BuildDecide ==
  /\ cmd.kind = "build" /\ cmd.pc = "inputs" /\ call[M] = "InputsChanged"
  /\ LET ch == ret[M] = "changed"
         B == mState[M].builds
         allComplete == \A n \in DOMAIN B : IsComplete(B[n])
     IN IF ~ch /\ allComplete /\ DOMAIN B # {}
          THEN CmdStep([cmd EXCEPT !.changed = ch, !.pc = "close", !.exit = 0],
                       mState[M], "InputsChanged")
          ELSE CmdStep([cmd EXCEPT !.changed = ch, !.pc = "update"],
                       mState[M], "InputsChanged")

\* stateManager.UpdateTemplateInputs(path, templateHash, variables, no files)
BuildUpdate ==
  /\ cmd.kind = "build" /\ cmd.pc = "update" /\ call[M] = "InputsChanged"
  /\ UpdateTemplateInputs(M, cmd.hash, cmd.vars, NoEntries)

\* runStatefulBuild: the builds of the template, one after the other
BuildStart ==
  /\ cmd.kind = "build" /\ cmd.pc = "update" /\ call[M] = "UpdateTemplateInputs"
  /\ CmdStep([cmd EXCEPT !.pc = "run", !.i = 1], mState[M], "Run")

\* StatefulBuild.Run is entered for the i-th build: a complete build is
\* answered from the document; a missing one (or a complete one with changed
\* inputs) gets a fresh record, saved first (SetBuild panics on a nil Builds
\* map: the deferred Close of the command runs, then the process ends); an
\* incomplete one goes to
\* runFreshBuild, after the resume that cannot succeed when it has an instance
RunEnter ==
  /\ cmd.kind = "build" /\ cmd.pc = "run"
  /\ LET b == cmd.tbuilds[cmd.i]
         doc == mState[M]
         has == b \in DOMAIN doc.builds
     IN IF has /\ IsComplete(doc.builds[b]) /\ ~InputsChangedSinceLastBuild
          THEN CmdStep([cmd EXCEPT !.pc = "ran",
                                   !.res = [kind |-> "arts", cached |-> TRUE,
                                            arts |-> LoadArtifactsFromState(doc.builds[b])]],
                       doc, "Run")
        ELSE IF (~has \/ IsComplete(doc.builds[b])) /\ SetBuildPanics(doc)
          THEN CmdStep([cmd EXCEPT !.pc = "close", !.exit = PanicExit,
                                   !.res = [kind |-> "panic"]], doc, "Run")
        ELSE IF ~has \/ IsComplete(doc.builds[b])
          THEN CmdStep([cmd EXCEPT !.pc = "save_init"], WithBuild(doc, b, FreshBuild), "Run")
        ELSE LET cur == doc.builds[b]
                 r == IF HasInstance(cur) THEN ResumeFailed(cur) ELSE cur
             IN CmdStep([cmd EXCEPT !.pc = "save_creating"], WithBuild(doc, b, RunFresh(r)), "Run")

\* sb.stateManager.Save() at one of the four places of Run / runFreshBuild
RunSave ==
  /\ cmd.kind = "build" /\ cmd.pc \in SavePoints /\ call[M] = "Run"
  /\ ManagerSave(M)

\* that Save returned: the first two stop Run on an error, the last two
\* ignore it (after a failed engine run, and after a successful one)
RunSaved ==
  /\ cmd.kind = "build" /\ cmd.pc \in SavePoints /\ pc[M] = "idle" /\ call[M] = "Save"
  /\ LET b == cmd.tbuilds[cmd.i]
         doc == mState[M]
         saveError == [kind |-> "err", from |-> "save", msg |-> ret[M]]
     IN CASE cmd.pc = "save_init" ->
               IF ret[M] # "ok"
                 THEN CmdStep([cmd EXCEPT !.pc = "ran", !.res = saveError], doc, "Run")
                 ELSE CmdStep([cmd EXCEPT !.pc = "save_creating"],
                              WithBuild(doc, b, RunFresh(doc.builds[b])), "Run")
          [] cmd.pc = "save_creating" ->
               IF ret[M] # "ok"
                 THEN CmdStep([cmd EXCEPT !.pc = "ran", !.res = saveError], doc, "Run")
                 ELSE CmdStep([cmd EXCEPT !.pc = "engine"], doc, "Run")
          [] cmd.pc = "save_failed" ->
               CmdStep([cmd EXCEPT !.pc = "ran",
                                   !.res = [kind |-> "err", from |-> "engine", msg |-> cmd.out.msg]],
                       doc, "Run")
          [] cmd.pc = "save_complete" ->
               CmdStep([cmd EXCEPT !.pc = "ran",
                                   !.res = [kind |-> "arts", cached |-> FALSE, arts |-> cmd.out.arts]],
                       doc, "Run")

\* sb.inner.Run: the engine builds from scratch, running the provisioners in
\* order; it returns artifacts, or fails in one of its steps
EngineRun ==
  /\ cmd.kind = "build" /\ cmd.pc = "engine"
  /\ LET b == cmd.tbuilds[cmd.i]
         doc == mState[M]
         all == [j \in 1..NumProvisioners |-> j - 1]
     IN \/ \E arts \in EngineArtifacts :
             CmdStep([cmd EXCEPT !.pc = "save_complete",
                                 !.out = [kind |-> "arts", arts |-> arts],
                                 !.engine = Append(@, [build |-> b, ok |-> TRUE, steps |-> all])],
                     WithBuild(doc, b, EngineSucceeded(doc.builds[b], arts)), "Run")
        \/ \E f \in 1..NumProvisioners :
             CmdStep([cmd EXCEPT !.pc = "save_failed",
                                 !.out = [kind |-> "err", msg |-> EngineMessage],
                                 !.engine = Append(@, [build |-> b, ok |-> FALSE,
                                                       steps |-> SubSeq(all, 1, f)])],
                     WithBuild(doc, b, EngineFailed(doc.builds[b], EngineMessage)), "Run")

\* Run returned to runStatefulBuild: an error ends the command with exit 1,
\* else the next build, and exit 0 after the last
RunReturned ==
  /\ cmd.kind = "build" /\ cmd.pc = "ran"
  /\ IF cmd.res.kind = "err"
       THEN CmdStep([cmd EXCEPT !.pc = "close", !.exit = 1], mState[M], "Run")
     ELSE IF cmd.i < Len(cmd.tbuilds)
       THEN CmdStep([cmd EXCEPT !.pc = "run", !.i = @ + 1], mState[M], "Run")
     ELSE CmdStep([cmd EXCEPT !.pc = "close", !.exit = 0], mState[M], "Run")

\* the deferred stateManager.Close()
BuildClose ==
  /\ cmd.kind = "build" /\ cmd.pc = "close" /\ call[M] # "Close"
  /\ ManagerClose(M)

\* Close returned (an error is only logged): the command returns
BuildExit ==
  /\ cmd.kind = "build" /\ cmd.pc = "close" /\ pc[M] = "idle" /\ call[M] = "Close"
  /\ CmdStep([cmd EXCEPT !.pc = "done"], mState[M], "Close")

BuildFiles == {Absent, TruncData, Encode(DocBuilt), Encode(DocBuiltStale), Encode(DocFailedStep2)}
InputVars == {BuildVars, [k \in {"a"} |-> ""]}
TemplateBuilds == {<<"b1">>, <<"b1", "b2">>}

InitBuild ==
  \E c \in BuildFiles, h \in Hashes, V \in InputVars, T \in TemplateBuilds :
    InitFileCmd(c, BuildCmd(c, h, V, T))

NextBuild ==
  \/ BuildLoad
  \/ BuildLoaded
  \/ BuildInputsChanged
  \/ BuildDecide
  \/ BuildUpdate
  \/ BuildStart
  \/ RunEnter
  \/ RunSave
  \/ RunSaved
  \/ EngineRun
  \/ RunReturned
  \/ BuildClose
  \/ BuildExit
  \/ Steps(M, TRUE)

SpecBuild == InitBuild /\ [][NextBuild]_vars

\* the build command also over a state file that parses and has no builds key
NoBuildsFiles == {[Encode(InitDoc) EXCEPT !.fields = AllFields \ {"builds"}]}

InitNoBuilds ==
  \E c \in BuildFiles \cup NoBuildsFiles, h \in Hashes, V \in InputVars, T \in TemplateBuilds :
    InitFileCmd(c, BuildCmd(c, h, V, T))

SpecNoBuilds == InitNoBuilds /\ [][NextBuild]_vars

\* ------------------------------------------------------ StateRmCommand.Run
RmNames == {"b1", "b2"}
RmFiles == {Absent, TruncData, Encode(DocBuilt), Encode(DocBuiltStale)}

\* the rm command on the build name n, over the state file c
RmCmd(c, n) ==
  [kind |-> "rm", pc |-> "load", name |-> n, file0 |-> c, loaded |-> NilState,
   exit |-> NoExit]

\* State.GetBuild(name) # nil
HasBuild_Always(st, n) == TRUE

HasBuild(st, n) == n \in DOMAIN st.builds

\* manager.Load()
RmLoad ==
  /\ cmd.kind = "rm" /\ cmd.pc = "load" /\ call[M] = "none"
  /\ ManagerLoad(M)

\* Load returned: on an error exit 1; else Unlock is deferred, and without a
\* document or without the build the command fails
RmLoaded ==
  /\ cmd.kind = "rm" /\ cmd.pc = "load" /\ pc[M] = "idle" /\ call[M] = "Load"
  /\ IF ret[M] # "ok"
       THEN CmdStep([cmd EXCEPT !.pc = "done", !.exit = 1], mState[M], "Load")
     ELSE IF mState[M] = NilState
       THEN CmdStep([cmd EXCEPT !.pc = "unlock", !.exit = 1], mState[M], "Load")
     ELSE IF ~HasBuild(mState[M], cmd.name)
       THEN CmdStep([cmd EXCEPT !.pc = "unlock", !.loaded = mState[M], !.exit = 1],
                    mState[M], "Load")
     ELSE CmdStep([cmd EXCEPT !.pc = "remove", !.loaded = mState[M]], mState[M], "Load")

\* st.RemoveBuild(buildName)
RmRemove ==
  /\ cmd.kind = "rm" /\ cmd.pc = "remove" /\ call[M] = "Load"
  /\ RemoveBuild(M, cmd.name)

\* manager.Save()
RmSave ==
  /\ cmd.kind = "rm" /\ cmd.pc = "remove" /\ call[M] = "RemoveBuild"
  /\ ManagerSave(M)

\* Save returned: exit 1 on an error, else 0
RmSaved ==
  /\ cmd.kind = "rm" /\ cmd.pc = "remove" /\ pc[M] = "idle" /\ call[M] = "Save"
  /\ CmdStep([cmd EXCEPT !.pc = "unlock", !.exit = IF ret[M] = "ok" THEN 0 ELSE 1],
             mState[M], "Save")

\* the deferred manager.Unlock()
RmUnlock ==
  /\ cmd.kind = "rm" /\ cmd.pc = "unlock" /\ call[M] # "Unlock"
  /\ ManagerUnlock(M)

\* Unlock returned (its result is dropped): the command returns
RmExit ==
  /\ cmd.kind = "rm" /\ cmd.pc = "unlock" /\ pc[M] = "idle" /\ call[M] = "Unlock"
  /\ CmdStep([cmd EXCEPT !.pc = "done"], mState[M], "Unlock")

InitRm == \E c \in RmFiles, n \in RmNames : InitFileCmd(c, RmCmd(c, n))

NextRm ==
  \/ RmLoad
  \/ RmLoaded
  \/ RmRemove
  \/ RmSave
  \/ RmSaved
  \/ RmUnlock
  \/ RmExit
  \/ Steps(M, TRUE)

SpecRm == InitRm /\ [][NextRm]_vars

\* ---------------------------------------------------- StateShowCommand.Run
\* state show is Load(path) and printing; beside it one session of another
\* process, over a lock path that is free or holds a file somebody left
InitShow == InitLeft(InitFiles, {Absent} \cup LeftLockFiles)

NextShow ==
  \/ ReadOpen
  \/ ReadDecode
  \/ Session(M)
  \/ Steps(M, TRUE)

SpecShow == InitShow /\ [][NextShow]_vars

\* ---------------------------------------------------- MockBuildSimulator.Run
\* the simulator's own build record after each of its moves
SimInstance == [id |-> "i-1", keep |-> TRUE]
SimArtifacts == <<[id |-> "ami-1", builderid |-> "mock-builder", type |-> "ami", files |-> <<>>]>>

\* the instance is created: the status goes to provisioning
InstanceCreated(b) == [b EXCEPT !.instance = SimInstance, !.status = "provisioning"]

StartStep_KeepError(b, i) == [b EXCEPT !.provisioners[i + 1] = "running"]

\* provisioner i is started: its error is cleared, its status is running
StartStep(b, i) == [b EXCEPT !.errors[i + 1] = "", !.provisioners[i + 1] = "running"]

\* the injected failure at provisioner i
StepFailed(b, i) ==
  [b EXCEPT !.provisioners[i + 1] = "failed", !.errors[i + 1] = StepMessage,
            !.status = "failed",
            !.error = "Provisioner " \o ToString(i + 1) \o " failed"]

\* provisioner i succeeded
StepDone(b, i) == [b EXCEPT !.provisioners[i + 1] = "complete"]

\* all provisioners are complete: the artifact is created
Finished(b) ==
  [b EXCEPT !.status = "complete", !.completed = Now, !.artifacts = SimArtifacts]

\* documents the simulator leaves: after a full run, and after a failure at
\* its second provisioner (DocFailedStep2)
SimBuilt ==
  [FreshBuild EXCEPT !.status = "complete", !.completed = Now, !.instance = SimInstance,
                     !.provisioners = [i \in 1..NumProvisioners |-> "complete"],
                     !.artifacts = SimArtifacts]
DocSimBuilt == DocWith(6, ZeroTemplate, [n \in {"b1"} |-> SimBuilt])
SimFiles == {Absent, TruncData, Encode(DocSimBuilt), Encode(DocFailedStep2)}
FailAts == {NoIndex} \cup (0..(NumProvisioners - 1))
SimSavePoints == {"save_instance", "save_failure", "save_step", "save_final"}

\* the simulator on the build n with the failure injected at f (NoIndex:
\* none), over the state file c
SimCmd(c, n, f) ==
  [kind |-> "sim", pc |-> "load", name |-> n, failAt |-> f, file0 |-> c, i |-> 0,
   res |-> NoResult, exit |-> NoExit]

\* manager.Load()
SimLoad ==
  /\ cmd.kind = "sim" /\ cmd.pc = "load" /\ call[M] = "none"
  /\ ManagerLoad(M)

\* Load returned: an error ends the run; else Unlock is deferred, a complete
\* build returns at once, a missing build is initialised, and without an
\* instance one is created and saved
SimLoaded ==
  /\ cmd.kind = "sim" /\ cmd.pc = "load" /\ pc[M] = "idle" /\ call[M] = "Load"
  /\ LET doc == mState[M] IN
     IF ret[M] # "ok"
       THEN CmdStep([cmd EXCEPT !.pc = "done", !.exit = 1,
                                !.res = [kind |-> "err", from |-> "load"]], doc, "Sim")
     ELSE IF HasBuild(doc, cmd.name) /\ IsComplete(doc.builds[cmd.name])
       THEN CmdStep([cmd EXCEPT !.pc = "unlock", !.exit = 0,
                                !.res = [kind |-> "ok", from |-> "state"]], doc, "Sim")
     ELSE LET b == IF HasBuild(doc, cmd.name) THEN doc.builds[cmd.name] ELSE FreshBuild IN
          IF b.instance = NoInstance
            THEN CmdStep([cmd EXCEPT !.pc = "save_instance"],
                         WithBuild(doc, cmd.name, InstanceCreated(b)), "Sim")
            ELSE CmdStep([cmd EXCEPT !.pc = "prov"], WithBuild(doc, cmd.name, b), "Sim")

\* manager.Save() at one of the four checkpoints
SimSave ==
  /\ cmd.kind = "sim" /\ cmd.pc \in SimSavePoints /\ call[M] = "Sim"
  /\ ManagerSave(M)

\* that Save returned: every error ends the run
SimSaved ==
  /\ cmd.kind = "sim" /\ cmd.pc \in SimSavePoints /\ pc[M] = "idle" /\ call[M] = "Save"
  /\ LET doc == mState[M] IN
     IF ret[M] # "ok"
       THEN CmdStep([cmd EXCEPT !.pc = "unlock", !.exit = 1,
                                !.res = [kind |-> "err", from |-> "save"]], doc, "Sim")
     ELSE CASE cmd.pc = "save_instance" -> CmdStep([cmd EXCEPT !.pc = "prov"], doc, "Sim")
            [] cmd.pc = "save_failure" ->
                 CmdStep([cmd EXCEPT !.pc = "unlock", !.exit = 1,
                                     !.res = [kind |-> "err", from |-> "step"]], doc, "Sim")
            [] cmd.pc = "save_step" ->
                 CmdStep([cmd EXCEPT !.pc = "prov", !.i = @ + 1], doc, "Sim")
            [] cmd.pc = "save_final" ->
                 CmdStep([cmd EXCEPT !.pc = "unlock", !.exit = 0,
                                     !.res = [kind |-> "ok", from |-> "run"]], doc, "Sim")

\* one turn of the provisioner loop, or the end of it
SimStep ==
  /\ cmd.kind = "sim" /\ cmd.pc = "prov" /\ call[M] = "Sim"
  /\ LET doc == mState[M]
         b == doc.builds[cmd.name]
         i == cmd.i
     IN IF i = NumProvisioners
          THEN CmdStep([cmd EXCEPT !.pc = "save_final"],
                       WithBuild(doc, cmd.name, Finished(b)), "Sim")
        ELSE IF b.provisioners[i + 1] = "complete"
          THEN CmdStep([cmd EXCEPT !.i = @ + 1], doc, "Sim")
        ELSE IF cmd.failAt = i
          THEN CmdStep([cmd EXCEPT !.pc = "save_failure"],
                       WithBuild(doc, cmd.name, StepFailed(StartStep(b, i), i)), "Sim")
        ELSE CmdStep([cmd EXCEPT !.pc = "save_step"],
                     WithBuild(doc, cmd.name, StepDone(StartStep(b, i), i)), "Sim")

\* the deferred manager.Unlock()
SimUnlock ==
  /\ cmd.kind = "sim" /\ cmd.pc = "unlock" /\ call[M] # "Unlock"
  /\ ManagerUnlock(M)

\* Unlock returned: Run returns
SimExit ==
  /\ cmd.kind = "sim" /\ cmd.pc = "unlock" /\ pc[M] = "idle" /\ call[M] = "Unlock"
  /\ CmdStep([cmd EXCEPT !.pc = "done"], mState[M], "Unlock")

InitSim == \E c \in SimFiles, f \in FailAts : InitFileCmd(c, SimCmd(c, "b1", f))

NextSim ==
  \/ SimLoad
  \/ SimLoaded
  \/ SimSave
  \/ SimSaved
  \/ SimStep
  \/ SimUnlock
  \/ SimExit
  \/ Steps(M, TRUE)

SpecSim == InitSim /\ [][NextSim]_vars

\* writers that bypass the Manager (TestStateStress_ConcurrentReadsWrites)
\* each writer loops: Load, SetBuild, Save; it stops at its first error
WriterMayLoad(m) == ret[m] \in {"none", "ok"} /\ call[m] \in {"none", "DSave"}
WriterMaySet(m) == ret[m] = "ok" /\ call[m] = "DLoad"
WriterMaySave(m) == ret[m] = "ok" /\ call[m] = "SetBuild"

NextDirect ==
  \/ \E m \in Managers : WriterMayLoad(m) /\ DirectLoad(m)
  \/ \E m \in Managers : \E n \in BuildNames : WriterMaySet(m) /\ SetBuild(m, n)
  \/ \E m \in Managers : WriterMaySave(m) /\ DirectSave(m)
  \/ \E m \in Managers : LoadOpen(m)
  \/ \E m \in Managers : LoadDecode(m)
  \/ \E m \in Managers : SaveCreate(m)
  \/ \E m \in Managers : SaveEncode(m)
  \/ \E m \in Managers : SaveClose(m)
  \/ \E m \in Managers : SaveRename(m)
  \/ \E m \in Managers : SaveRemoveTmp(m)
  \/ ReadOpen
  \/ ReadDecode

\* the test saves an initial document before it starts the writers
InitSaved == InitWith({Encode(InitDoc)})

SpecDirect == InitSaved /\ [][NextDirect]_vars

\* ================================================================ claims
StateFile == ContentAt(StatePath)
StateFileNext == ContentOf(dir', data', StatePath)
LoadPcs == {"lk_create", "lk_write", "lk_close", "lk_rm", "ld_open", "ld_decode"}
SavePcs == {"sv_create", "sv_encode", "sv_close", "sv_rename", "sv_rm"}
Moves(m) == <<pc[m], call[m], ret[m]>> # <<pc'[m], call'[m], ret'[m]>>

\* a manager holds a session: its Load succeeded and it has not released
Holds(m) == sess[m] /\ lmLock[m] # NoLock

\* C1: at most one manager holds the lock at any time, and at most one
\* manager is inside a session: two open attempts never both succeed.
C1_MutualExclusion ==
  /\ Cardinality({m \in Managers : lmLock[m] # NoLock}) <= 1
  /\ Cardinality({m \in Managers : sess[m]}) <= 1
  /\ \A m \in Managers : lmLock[m] # NoLock => ContentAt(LockPath) = [kind |-> "lock", id |-> lmLock[m]]

\* C1 witness: one manager is inside its session and another one has just
\* been turned away by the lock.
C1_Witness ==
  \E a, b \in Managers :
    /\ a # b
    /\ Holds(a)
    /\ call[b] = "Load" /\ pc[b] = "idle" /\ ret[b] = "locked"

\* C2: while manager a holds a session, a Manager.Load by another manager b
\* ends at once with the locked error (no retry, no wait) and changes no file;
\* a successful Close or Unlock of a leaves no lock file behind, so that a
\* Manager.Load that is turned away always found a lock file, and with a
\* working file system the Load that finds none succeeds (the state file of a
\* path that had a session always decodes).
C2_SecondOpen ==
  /\ [][\A a, b \in Managers :
          (a # b /\ Holds(a) /\ Moves(b) /\ call'[b] = "Load")
            => /\ dir' = dir /\ data' = data
               /\ pc'[b] \in {"idle", "lk_create"}
               /\ pc'[b] = "idle" => ret'[b] \in {"locked", "io"}
               /\ (~faults /\ pc[b] = "idle") => (pc'[b] = "idle" /\ ret'[b] = "locked")
               /\ ~sess'[b] /\ lmLock'[b] = NoLock]_vars
  /\ [][\A a \in Managers :
          (Holds(a) /\ ~sess'[a])
            => (ret'[a] = "ok" /\ lmLock'[a] = NoLock /\ dir'[LockPath] = NoFile)]_vars
  /\ [][\A b \in Managers :
          (Moves(b) /\ call'[b] = "Load" /\ pc'[b] = "idle")
            => \/ ret'[b] = "ok" /\ Holds(b)'
               \/ ret'[b] = "locked" /\ dir[LockPath] # NoFile
               \/ ret'[b] = "corrupt" /\ StateFile = TruncData
               \/ ret'[b] = "io" /\ faults]_vars
  /\ [](\A a \in Managers : sess[a] => StateFile.kind \in {"absent", "json"})

\* C2 witness: a has ended its session with a successful Close or Unlock and
\* b is now inside the session its Load opened.
C2_Witness ==
  \E a, b \in Managers :
    /\ a # b
    /\ call[a] \in {"Close", "Unlock"} /\ pc[a] = "idle" /\ ret[a] = "ok"
    /\ Holds(b) /\ call[b] = "Load" /\ ret[b] = "ok"
    /\ ~faults

\* C3: with a single writer (the lock holder), the state path never holds a
\* partially written file, the file a reader has opened is a complete
\* document (or the file that was corrupt from the start), it does not change
\* while the reader decodes it, and the Load returns that document.
C3_AtomicVisibility ==
  /\ [](StateFile.kind \in {"absent", "json", "trunc"})
  /\ [](rpc = "opened" => data[rfd].kind \in {"json", "trunc"})
  /\ [][StateFileNext # StateFile => StateFileNext.kind = "json"]_vars
  /\ [][(rpc = "opened" /\ rpc' = "opened") => (rfd' = rfd /\ data'[rfd] = data[rfd])]_vars
  /\ [][(rpc = "opened" /\ rpc' = "idle")
          => (rret'.kind = "doc" \/ (rret'.kind = "err" /\ data[rfd] = TruncData))]_vars

\* C3 witness: the reader opened the state file, the holder's Save then
\* renamed a new version into place, and the reader still has the old one.
C3_Witness ==
  /\ rpc = "opened"
  /\ dir[StatePath] # rfd
  /\ data[rfd].kind = "json"
  /\ StateFile.kind = "json"
  /\ StateFile # data[rfd]

\* C4: whatever step a process stops at, the content of the state path
\* changes only in the rename of a Save that then returns success, and the new
\* content is the complete document of that Save: a crash leaves the file of
\* the last successful Save, and a left-over temp file does not get there.
C4_CrashDurability ==
  [][StateFileNext # StateFile
       => \E m \in Managers :
            /\ pc[m] = "sv_rename"
            /\ pc'[m] = "ul_read" \/ (pc'[m] = "idle" /\ ret'[m] = "ok")
            /\ StateFileNext = Encode(mState[m])]_vars

\* C4 witness: a process died inside Save and left a completely written temp
\* file that is not the content of the state path; nobody is saving.
C4_Witness ==
  /\ \E m \in Managers : pc[m] = "crashed"
  /\ \A m \in Managers : pc[m] \notin SavePcs
  /\ dir[TmpPath] # NoFile
  /\ data[dir[TmpPath]].kind = "json"
  /\ StateFile # data[dir[TmpPath]]

\* C5 (as claimed): with writers that call Load and State.Save without the
\* lock, and a file system that never fails, no Save and no Load returns an
\* error and the state path always parses.
C5_NoErrorNoCorruption ==
  ~faults =>
    /\ \A m \in Managers : ret[m] \in {"none", "ok"}
    /\ rret.kind # "err"
    /\ StateFile.kind = "json"

\* C6: across sessions that keep the protocol, every durable write puts a
\* document with a strictly larger serial at the state path, so that the
\* path never holds two different contents under one serial.
C6_SerialIncreases ==
  [][StateFileNext # StateFile
       => /\ StateFileNext.kind = "json"
          /\ StateFile.kind = "json" => StateFileNext.serial > StateFile.serial
          /\ StateFile.kind = "absent" => StateFileNext.serial > 1]_vars

\* C6 witness: a second session is open on a file that earlier sessions have
\* written twice, and its document differs from the first version.
C6_Witness ==
  /\ StateFile.kind = "json"
  /\ StateFile.serial = 3
  /\ StateFile.builds # NoBuilds
  /\ \E m \in Managers : Holds(m) /\ call[m] = "Load" /\ mState[m].serial = 3

\* C7 (as claimed): every successful Save writes a serial exactly 1 greater
\* than the previous successful Save of the session wrote, the first one 1
\* greater than the serial loaded or synthesized (1) at open.
C7_SerialStepsByOne ==
  [][(StateFileNext # StateFile /\ StateFileNext.kind = "json")
       => StateFileNext.serial = (IF StateFile.kind = "json" THEN StateFile.serial ELSE 1) + 1]_vars

\* C8 (as claimed): a Save that returns an error leaves the state path as it
\* was and the serial of the in-memory document at its value before the call.
C8_FailedSaveNoEffect ==
  [][\A m \in Managers :
       (pc[m] \in {"sv_create", "sv_rm"} /\ pc'[m] = "idle" /\ ret'[m] = "io")
         => /\ StateFileNext = StateFile
            /\ mState'[m].serial = s0[m]]_vars

\* C9: the lineage of a document in memory never changes (Save, Close,
\* SetBuild, RemoveBuild, UpdateTemplateInputs), the lineage stored at the state path never
\* changes, a document that is loaded carries the lineage stored in the file
\* and only a document created by New for a missing file gets a new lineage.
C9_LineageStable ==
  /\ [][\A m \in Managers :
          (mState[m].kind = "doc" /\ mState'[m].kind = "doc")
            => mState'[m].lineage = mState[m].lineage]_vars
  /\ [][(StateFile.kind = "json" /\ StateFileNext # StateFile)
          => (StateFileNext.kind = "json" /\ StateFileNext.lineage = StateFile.lineage)]_vars
  /\ [][\A m \in Managers :
          (mState[m] = NilState /\ mState'[m].kind = "doc")
            => IF StateFile.kind = "json"
                 THEN mState'[m].lineage = StateFile.lineage
                 ELSE mState'[m].lineage \notin LiveLineages]_vars
  /\ [](\A m \in Managers :
          (Holds(m) /\ StateFile.kind = "json") => mState[m].lineage = StateFile.lineage)

\* C9 witness: a session loaded a document that an earlier Save had written
\* and has changed and saved it again.
C9_Witness ==
  \E m \in Managers :
    /\ Holds(m)
    /\ call[m] = "Save" /\ ret[m] = "ok"
    /\ StateFile.kind = "json"
    /\ StateFile.serial = MaxSerial
    /\ StateFile.builds # NoBuilds
    /\ StateFile.template # ZeroTemplate

\* C10 (as claimed): a state file whose version is missing or is not 1 is
\* refused: no manager gets a document or a session from it.
C10_RefusesOtherVersion ==
  \A m \in Managers :
    /\ mState[m].kind = "doc" => mState[m].version = 1
    /\ sess[m] => (StateFile.kind = "json" => Decode(StateFile).version = 1)

\* C11 (as claimed): a step of h's Unlock taken while the lock file carries an
\* id other than h's never removes or replaces that file, and (file system
\* working) it ends the Unlock with the lock-stolen error, wherever in its
\* Unlock h is when the lock is force-removed and taken by another manager.
C11_UnlockKeepsForeignLock ==
  [][\A h \in Managers :
       (/\ Moves(h) /\ call[h] = "Unlock" /\ pc[h] \in {"ul_read", "ul_remove"}
        /\ lmLock[h] # NoLock
        /\ ContentAt(LockPath).kind = "lock"
        /\ ContentAt(LockPath).id # lmLock[h])
         => /\ dir'[LockPath] = dir[LockPath]
            /\ ContentOf(dir', data', LockPath) = ContentAt(LockPath)
            /\ ~faults => (pc'[h] = "idle" /\ ret'[h] = "stolen")]_vars

\* C12 (as claimed): when the holder's Unlock finds no file at the lock path
\* (file system working), it returns success and the holder no longer
\* considers itself to hold the lock.
C12_UnlockWithoutLockFile ==
  [][\A h \in Managers :
       (/\ Moves(h) /\ call[h] = "Unlock" /\ pc[h] = "ul_read"
        /\ lmLock[h] # NoLock
        /\ dir[LockPath] = NoFile
        /\ ~faults)
         => (pc'[h] = "idle" /\ ret'[h] = "ok" /\ lmLock'[h] = NoLock)]_vars

\* C13: a step of Lock (the Stat check, or the exclusive create when the
\* Stat did not see the file) taken while a file exists at the lock path,
\* whatever its body, ends the Lock with an error, changes no file, and
\* leaves the caller without the lock and without a session.
C13_LockFailsOnAnyBody ==
  [][\A m \in Managers :
       (/\ Moves(m) /\ call'[m] = "Load" /\ pc[m] \in {"idle", "lk_create"}
        /\ dir[LockPath] # NoFile)
         => /\ dir' = dir /\ data' = data
            /\ pc'[m] \in {"idle", "lk_create"}
            /\ pc'[m] = "lk_create" => (pc[m] = "idle" /\ faults)
            /\ pc'[m] = "idle" => ret'[m] \in {"locked", "io"}
            /\ ret'[m] = "io" => faults
            /\ lmLock'[m] = lmLock[m] /\ newLock'[m] = NoLock
            /\ ~sess'[m]]_vars

\* C13 witness: a Lock has just been refused by a lock file that another
\* manager has created and not yet written (empty body).
C13_Witness ==
  \E a, b \in Managers :
    /\ a # b
    /\ pc[a] = "lk_write" /\ ContentAt(LockPath) = EmptyData
    /\ call[b] = "Load" /\ pc[b] = "idle" /\ ret[b] = "locked" /\ lmLock[b] = NoLock

\* a lock file that no live manager holds or is in the middle of creating
Orphan ==
  /\ dir[LockPath] # NoFile
  /\ \A k \in Managers : lmLock[k] = NoLock /\ pc[k] \notin {"lk_write", "lk_close", "lk_rm"}

\* C14: a lock file whose holder stopped stays where it is, with its content,
\* until a ForceUnlock removes it: no Lock attempt gets the lock meanwhile and
\* nothing expires. A successful ForceUnlock leaves no lock file, and a Lock
\* attempt that finds none (file system working) creates the lock file and
\* then holds the lock.
C14_AbandonedLockStays ==
  /\ [][Orphan =>
          \/ /\ Orphan'
             /\ ContentOf(dir', data', LockPath) = ContentAt(LockPath)
             /\ \A m \in Managers : ~Holds(m)'
          \/ /\ pc' = pc
             /\ \E m \in Managers : pc[m] = "idle" /\ call'[m] = "ForceUnlock" /\ ret'[m] = "ok"
             /\ dir'[LockPath] = NoFile]_vars
  /\ [][\A m \in Managers :
          (Moves(m) /\ call'[m] = "ForceUnlock" /\ ret'[m] = "ok") => dir'[LockPath] = NoFile]_vars
  /\ [][\A m \in Managers :
          (/\ Moves(m) /\ call'[m] = "Load" /\ pc[m] \in {"idle", "lk_create"}
           /\ dir[LockPath] = NoFile /\ ~faults)
            => \/ pc[m] = "idle" /\ pc'[m] = "lk_create"
               \/ pc[m] = "lk_create" /\ pc'[m] = "lk_write" /\ dir'[LockPath] # NoFile]_vars
  /\ [][\A m \in Managers :
          (Moves(m) /\ pc[m] = "lk_close" /\ pc'[m] # "crashed" /\ ~faults)
            => (lmLock'[m] = newLock[m] /\ lmLock'[m] # NoLock)]_vars

\* C14 witness: the holder stopped and left its lock; after a restarted
\* process called ForceUnlock the other manager's Load got the lock.
C14_Witness ==
  \E a, b \in Managers :
    /\ a # b
    /\ call[a] = "ForceUnlock" /\ ret[a] = "ok" /\ pc[a] = "idle"
    /\ Holds(b) /\ call[b] = "Load" /\ ret[b] = "ok"

\* C15: a Manager.Load that has taken the lock and then cannot decode the
\* state file returns the error with the lock file removed (file system
\* working), lm.lock nil, no document in the manager and no session; no step
\* of a Manager.Load changes the state file.
C15_FailedLoadReleasesLock ==
  /\ [][\A m \in Managers :
          (Moves(m) /\ call'[m] = "Load" /\ pc'[m] = "idle" /\ ret'[m] = "corrupt")
            => /\ pc[m] \in {"ul_read", "ul_remove"}
               /\ StateFile.kind \notin {"absent", "json"}
               /\ mState'[m] = NilState /\ ~sess'[m]
               /\ ~faults => (dir'[LockPath] = NoFile /\ lmLock'[m] = NoLock)]_vars
  /\ [][\A m \in Managers :
          (Moves(m) /\ call'[m] = "Load") => StateFileNext = StateFile]_vars

\* C15 witness: a Load has failed on an undecodable state file, and the lock
\* it had taken is gone.
C15_Witness ==
  \E m \in Managers :
    /\ call[m] = "Load" /\ pc[m] = "idle" /\ ret[m] = "corrupt"
    /\ StateFile = TruncData
    /\ dir[LockPath] = NoFile /\ lmLock[m] = NoLock
    /\ ~faults

\* C16: a Manager.Load that finds no state file gives the manager the
\* document New makes (version 1, serial 1, no builds) with a lineage that
\* did not exist before, inside a session that holds the lock, and creates no
\* state file; the file first appears in the rename of a Save or Close of a
\* session, holding that session's document.
C16_FreshDocument ==
  /\ [][\A m \in Managers :
          (mState[m] = NilState /\ mState'[m].kind = "doc" /\ StateFile = Absent)
            => /\ mState'[m] = New(mState'[m].lineage)
               /\ mState'[m].version = 1 /\ mState'[m].serial = 1
               /\ mState'[m].builds = NoBuilds
               /\ mState'[m].lineage \notin LiveLineages
               /\ call'[m] = "Load" /\ pc'[m] = "idle" /\ ret'[m] = "ok"
               /\ Holds(m)'
               /\ dir' = dir]_vars
  /\ [][(StateFile = Absent /\ StateFileNext # Absent)
          => \E m \in Managers :
               /\ pc[m] = "sv_rename" /\ call[m] \in {"Save", "Close"}
               /\ Holds(m)
               /\ StateFileNext = Encode(mState[m])]_vars

\* C16 witness: a session is open on a path without a state file, with the
\* fresh document, and the path still has no file.
C16_Witness ==
  \E m \in Managers :
    /\ Holds(m) /\ call[m] = "Load" /\ ret[m] = "ok"
    /\ mState[m].kind = "doc" /\ mState[m].serial = 1 /\ mState[m].builds = NoBuilds
    /\ StateFile = Absent

\* C17 (as claimed): every change of the file at the state path is made by
\* the rename of a Save or Close of a manager that holds the lock at that
\* moment: lm.lock is set and the lock file carries its id.
C17_WritesOnlyUnderLock ==
  [][dir'[StatePath] # dir[StatePath]
       => \E m \in Managers :
            /\ pc[m] = "sv_rename" /\ Moves(m)
            /\ call[m] \in {"Save", "Close"}
            /\ lmLock[m] # NoLock
            /\ ContentAt(LockPath) = [kind |-> "lock", id |-> lmLock[m]]]_vars

\* C18: in a Close the rename puts the manager's document, with the serial
\* it had before the Close plus 1, at the state path while the lock file is
\* still there; the lock file goes only afterwards, in the Unlock part, and a
\* Close that returns success leaves the saved document and no lock file.
\* No step of an Unlock changes the state path, its file or the temp path;
\* its last step removes the lock file.
C18_CloseSavesUnlockDoesNot ==
  /\ [][\A m \in Managers :
          (Moves(m) /\ call[m] = "Close" /\ pc[m] = "sv_rename" /\ pc'[m] = "ul_read")
            => /\ StateFileNext = Encode(mState[m])
               /\ StateFileNext.serial = s0[m] + 1
               /\ dir[LockPath] # NoFile /\ dir'[LockPath] = dir[LockPath]]_vars
  /\ [][\A m \in Managers :
          (Moves(m) /\ call[m] = "Close" /\ call'[m] = "Close" /\ dir'[LockPath] # dir[LockPath])
            => /\ pc[m] = "ul_remove"
               /\ dir'[LockPath] = NoFile
               /\ StateFile = Encode(mState[m])]_vars
  /\ [][\A m \in Managers :
          (Moves(m) /\ call[m] = "Close" /\ pc'[m] = "idle" /\ ret'[m] = "ok")
            => /\ mState[m].kind = "doc"
               /\ StateFileNext = Encode(mState[m])
               /\ dir'[LockPath] = NoFile]_vars
  /\ [][\A m \in Managers :
          (Moves(m) /\ call'[m] = "Unlock")
            => /\ dir'[StatePath] = dir[StatePath] /\ dir'[TmpPath] = dir[TmpPath]
               /\ StateFileNext = StateFile
               /\ (pc'[m] = "idle" /\ ret'[m] = "ok") => dir'[LockPath] = NoFile]_vars

\* C18 witness: a has closed its session with a changed document, which the
\* file now holds; b is in the last step of an Unlock with changes in memory
\* that the file does not have.
C18_Witness ==
  \E a, b \in Managers :
    /\ a # b
    /\ call[a] = "Close" /\ pc[a] = "idle" /\ ret[a] = "ok"
    /\ StateFile.kind = "json" /\ StateFile.builds # NoBuilds
    /\ call[b] = "Unlock" /\ pc[b] = "ul_remove"
    /\ mState[b].kind = "doc" /\ mState[b].builds = NoBuilds
    /\ mState[b].serial = StateFile.serial

\* the receiver's document and the answer of the InputsChanged call that has
\* just been made
Asked == args.kind = "inputs" /\ call[args.by] = "InputsChanged"
Stored == mState[args.by].template
Changed == ret[args.by] = "changed"

\* C19: InputsChanged answers false when the hash and both mappings equal
\* the stored ones; it answers true when the hash differs, when a key has one
\* value in the given and another in the stored mapping (variables or files),
\* or when a given mapping has another number of keys than the stored one.
C19_InputsChangedDetects ==
  (Asked /\ mState[args.by].kind = "doc") =>
    /\ (args.hash = Stored.hash /\ args.variables = Stored.variables /\ args.files = Stored.files)
         => ~Changed
    /\ args.hash # Stored.hash => Changed
    /\ (\E k \in DOMAIN args.variables \cap DOMAIN Stored.variables :
          args.variables[k] # Stored.variables[k]) => Changed
    /\ (\E k \in DOMAIN args.files \cap DOMAIN Stored.files :
          args.files[k] # Stored.files[k]) => Changed
    /\ Cardinality(DOMAIN args.variables) # Cardinality(DOMAIN Stored.variables) => Changed
    /\ Cardinality(DOMAIN args.files) # Cardinality(DOMAIN Stored.files) => Changed

\* C19 witness: asked with the stored hash and files and with variables of
\* the same keys where one value differs, the answer is true.
C19_Witness ==
  /\ Asked /\ mState[args.by].kind = "doc"
  /\ args.hash = Stored.hash /\ args.files = Stored.files
  /\ DOMAIN args.variables = Keys /\ DOMAIN Stored.variables = Keys
  /\ args.variables["a"] = Stored.variables["a"]
  /\ args.variables["b"] # Stored.variables["b"]
  /\ Changed

\* C20 (as claimed): whenever the given variables or files differ from the
\* stored mapping as mappings (another key set or another value, an absent
\* key differing from a key present with the empty string), the answer is
\* true.
C20_DeepEquality ==
  (Asked /\ mState[args.by].kind = "doc") =>
    ((args.variables # Stored.variables \/ args.files # Stored.files) => Changed)

\* C29: NextPendingProvisioner returns an index from 0 to the number of
\* provisioners; an index below that number is the smallest one whose status
\* is pending or failed, and the number itself is returned exactly when no
\* provisioner is pending or failed; running, complete and skipped ones are
\* never returned.
C29_NextPendingStep ==
  (cmd.kind = "steps" /\ cmd.next # NoIndex) =>
    LET P == cmd.provisioners
        r == cmd.next
        open == {i \in 1..Len(P) : P[i] \in {"pending", "failed"}}
    IN /\ r \in 0..Len(P)
       /\ r < Len(P) => (r + 1 \in open /\ \A i \in open : r + 1 <= i)
       /\ r < Len(P) => P[r + 1] \notin {"running", "complete", "skipped"}
       /\ r = Len(P) <=> open = {}

\* C29 witness: asked on a running, a skipped and a failed provisioner, the
\* answer is 2, the failed one.
C29_Witness ==
  /\ cmd.kind = "steps"
  /\ cmd.provisioners = <<"running", "skipped", "failed">>
  /\ cmd.next = 2

\* C21 (as claimed): two calls of ComputeFingerprint on the same template
\* hash, variables and files return the same fingerprint, whatever order the
\* entries of the mappings are visited in.
C21_FingerprintIsFunction ==
  (cmd.kind = "fp" /\ Len(cmd.fps) = 2) => cmd.fps[1] = cmd.fps[2]

\* the build Run is working on, its record in memory and on disk
CurBuild == cmd.tbuilds[cmd.i]
OnDisk(n) == StateFile.kind = "json" /\ n \in DOMAIN StateFile.builds
AtRunOfComplete ==
  /\ cmd.kind = "build" /\ cmd.pc = "run"
  /\ CurBuild \in DOMAIN mState[M].builds
  /\ mState[M].builds[CurBuild].status = "complete"

\* C22: when Run is entered for a build whose record is complete and the
\* inputs are unchanged, Run returns at once: the engine is not invoked, the
\* result is one cached artifact per recorded artifact, in order, with its id,
\* builder id and files, nothing is saved and the document is as it was; a
\* command all of whose builds were answered this way leaves the build
\* records of the file as they were and its serial at most 1 higher.
C22_IdempotentRerun ==
  /\ [][(AtRunOfComplete /\ ~cmd.changed /\ cmd' # cmd)
          => LET rec == mState[M].builds[CurBuild] IN
             /\ cmd'.pc = "ran"
             /\ cmd'.res.kind = "arts" /\ cmd'.res.cached
             /\ Len(cmd'.res.arts) = Len(rec.artifacts)
             /\ \A i \in 1..Len(rec.artifacts) :
                  /\ cmd'.res.arts[i].id = rec.artifacts[i].id
                  /\ cmd'.res.arts[i].builderid = rec.artifacts[i].builderid
                  /\ cmd'.res.arts[i].files = rec.artifacts[i].files
             /\ cmd'.engine = cmd.engine
             /\ mState' = mState /\ pc' = pc
             /\ dir' = dir /\ data' = data]_vars
  /\ [](( /\ cmd.kind = "build" /\ cmd.pc = "done" /\ cmd.exit = 0
          /\ ~cmd.changed /\ cmd.engine = <<>> /\ cmd.res.kind = "arts")
        => /\ StateFile.kind = "json"
           /\ StateFile.builds = cmd.file0.builds
           /\ StateFile.serial \in {cmd.file0.serial, cmd.file0.serial + 1})

\* C22 witness: the command has returned after Run answered the complete
\* build b1 with its two recorded artifacts; the Close has raised the serial
\* on disk by 1.
C22_Witness ==
  /\ cmd.kind = "build" /\ cmd.pc = "done" /\ cmd.exit = 0
  /\ ~cmd.changed /\ cmd.engine = <<>>
  /\ cmd.res.kind = "arts" /\ cmd.res.cached /\ Len(cmd.res.arts) = 2
  /\ StateFile.kind = "json" /\ StateFile.serial = cmd.file0.serial + 1
  /\ dir[LockPath] = NoFile

\* C23 (as claimed): when the build command is given the stored template
\* hash and another value for a variable, so that InputsChanged has answered
\* true, and Run is entered for a build whose record is complete, Run does
\* not answer from the document: it replaces the record by a fresh pending
\* one and goes on to save it and to run the engine.
C23_ChangedInputsRebuild ==
  [][( /\ AtRunOfComplete /\ cmd.changed
       /\ cmd.file0.kind = "json"
       /\ cmd.hash = cmd.file0.template.hash
       /\ cmd.vars # cmd.file0.template.variables
       /\ cmd' # cmd)
       => /\ cmd'.pc = "save_init"
          /\ cmd'.res.kind # "arts"
          /\ mState'[M].builds[CurBuild] = FreshBuild]_vars

\* C24 (as claimed): when Run returns the engine's error, the record of the
\* build in the state file has status failed and the engine's message.
C24_FailureIsDurable ==
  (cmd.kind = "build" /\ cmd.pc = "ran" /\ cmd.res.kind = "err" /\ cmd.res.from = "engine")
    => /\ OnDisk(CurBuild)
       /\ StateFile.builds[CurBuild].status = "failed"
       /\ StateFile.builds[CurBuild].error = cmd.res.msg

\* C27 (as claimed): the build command on a path without a state file, one
\* build with three provisioners, everything succeeding and the engine
\* returning one artifact, ends with serial 6 in the state file and exactly
\* one build record: complete, all three steps complete, one artifact,
\* completed_at set.
C27_FreshSuccess ==
  ( /\ cmd.kind = "build" /\ cmd.pc = "done" /\ cmd.exit = 0
    /\ cmd.file0 = Absent /\ cmd.tbuilds = <<"b1">> /\ ~faults
    /\ cmd.out.kind = "arts" /\ Len(cmd.out.arts) = 1)
    => /\ StateFile.kind = "json"
       /\ StateFile.serial = 6
       /\ DOMAIN StateFile.builds = {"b1"}
       /\ StateFile.builds["b1"].status = "complete"
       /\ Len(StateFile.builds["b1"].provisioners) = 3
       /\ \A i \in 1..3 : StateFile.builds["b1"].provisioners[i] = "complete"
       /\ Len(StateFile.builds["b1"].artifacts) = 1
       /\ StateFile.builds["b1"].completed # 0

\* C28 (as claimed): the build command on the state of a run that failed in
\* step 1 with its instance kept (step 0 complete, step 2 pending), everything
\* succeeding now, executes step 1 and then step 2 and not step 0, and ends
\* with the build complete, every step complete and one artifact.
C28_ResumeAfterFailure ==
  ( /\ cmd.kind = "build" /\ cmd.pc = "done" /\ cmd.exit = 0
    /\ cmd.file0 = Encode(DocFailedStep2) /\ cmd.tbuilds = <<"b1">> /\ ~faults
    /\ cmd.out.kind = "arts" /\ Len(cmd.out.arts) = 1)
    => /\ Len(cmd.engine) = 1 /\ cmd.engine[1].steps = <<1, 2>>
       /\ OnDisk("b1")
       /\ StateFile.builds["b1"].status = "complete"
       /\ \A i \in 1..3 : StateFile.builds["b1"].provisioners[i] = "complete"
       /\ Len(StateFile.builds["b1"].artifacts) = 1

\* C30: the engine is invoked only from the position Run reaches after the
\* Save of the creating status succeeded, and there the state file holds the
\* record of the build as it is in memory, with status creating and without
\* an instance; a failed Save before that point ends Run with the error of
\* the Save, and Run has not invoked the engine for the build.
C30_CheckpointBeforeEngine ==
  /\ []((cmd.kind = "build" /\ cmd.pc = "engine")
        => /\ OnDisk(CurBuild)
           /\ StateFile.builds[CurBuild] = mState[M].builds[CurBuild]
           /\ StateFile.builds[CurBuild].status = "creating"
           /\ StateFile.builds[CurBuild].instance = NoInstance)
  /\ [][(cmd.kind = "build" /\ cmd'.engine # cmd.engine)
          => (cmd.pc = "engine" /\ cmd'.engine[Len(cmd'.engine)].build = CurBuild)]_vars
  /\ [][( /\ cmd.kind = "build" /\ cmd.pc \in {"save_init", "save_creating"}
          /\ pc[M] = "idle" /\ call[M] = "Save" /\ ret[M] # "ok" /\ cmd' # cmd)
          => /\ cmd'.pc = "ran"
             /\ cmd'.res.kind = "err" /\ cmd'.res.from = "save" /\ cmd'.res.msg = ret[M]
             /\ cmd'.engine = cmd.engine]_vars
  /\ []((cmd.kind = "build" /\ cmd.pc = "ran" /\ cmd.res.kind = "err" /\ cmd.res.from = "save")
        => \A j \in 1..Len(cmd.engine) : cmd.engine[j].build # CurBuild)

\* C30 witness: Run is about to invoke the engine for a build that was
\* stored as failed with an instance; on disk it is now creating, without.
C30_Witness ==
  /\ cmd.kind = "build" /\ cmd.pc = "engine"
  /\ cmd.file0 = Encode(DocFailedStep2)
  /\ OnDisk("b1") /\ StateFile.builds["b1"].status = "creating"
  /\ StateFile.builds["b1"].instance = NoInstance

\* C25: state rm NAME. When the loaded document has no build NAME the command
\* returns 1 and the state path is as it was (same content, or still no
\* file); when NAME is there and the command returns 0, the state file holds
\* the loaded document without NAME and with serial + 1, all else equal; in
\* both cases no lock file is left when the file system works, and one is
\* left only when the deferred Unlock returned an I/O error.
C25_StateRm ==
  (cmd.kind = "rm" /\ cmd.pc = "done" /\ cmd.loaded # NilState)
    => /\ cmd.name \notin DOMAIN cmd.loaded.builds
            => /\ cmd.exit = 1
               /\ StateFile = cmd.file0
               /\ (cmd.file0 = Absent) = (dir[StatePath] = NoFile)
       /\ (cmd.name \in DOMAIN cmd.loaded.builds /\ cmd.exit = 0)
            => StateFile = Encode([cmd.loaded EXCEPT
                 !.serial = @ + 1,
                 !.builds = [x \in (DOMAIN @) \ {cmd.name} |-> @[x]]])
       /\ ~faults => dir[LockPath] = NoFile
       /\ dir[LockPath] # NoFile => ret[M] = "io"

\* C25 witness: rm b2 has returned 0 on the document with b1 and b2; the file
\* now holds b1 alone at serial 6 and the lock file is gone.
C25_Witness ==
  /\ cmd.kind = "rm" /\ cmd.pc = "done" /\ cmd.exit = 0 /\ cmd.name = "b2"
  /\ cmd.file0 = Encode(DocBuiltStale)
  /\ StateFile.kind = "json" /\ DOMAIN StateFile.builds = {"b1"}
  /\ StateFile.serial = 6
  /\ dir[LockPath] = NoFile

\* C26: state show is read-only. A step of its Load(path) leaves every path
\* as it was (no file created, removed or replaced, no content changed, the
\* lock path included), whatever lies at the state path and the lock path;
\* with a working file system the open answers "no file" exactly when the
\* state path is empty and else goes on to decode, lock file or not, and the
\* decode fails only on a file that is not a JSON document.
C26_ShowReadOnly ==
  [][(rpc' # rpc \/ rret' # rret)
       => /\ \A p \in Paths :
               dir'[p] = dir[p] /\ ContentOf(dir', data', p) = ContentAt(p)
          /\ (rpc = "idle" /\ ~faults)
               => IF dir[StatePath] = NoFile THEN rret' = Absent /\ rpc' = "idle"
                                             ELSE rpc' = "opened"
          /\ rpc = "opened"
               => /\ rpc' = "idle"
                  /\ rret'.kind \in {"doc", DecodeError.kind}
                  /\ (rret'.kind = "doc") = (data[rfd].kind = "json")]_vars

\* C26 witness: show has read the document while the lock path held a lock
\* file left by a session outside (the manager beside it has not acted).
C26_Witness ==
  /\ rpc = "idle" /\ rret.kind = "doc"
  /\ dir[LockPath] # NoFile /\ ContentAt(LockPath) = [kind |-> "lock", id |-> 1]
  /\ pc[M] = "idle" /\ call[M] = "none"
  /\ StateFile = Encode(InitDoc)

\* C34: a step that is running or complete carries no error, in the state
\* file and in the document in memory alike, also for a step that failed in
\* an earlier run and was run again (its error is cleared when it is started).
C34_StepErrorCleared ==
  LET Clear(builds) ==
        \A n \in DOMAIN builds : \A i \in 1..Len(builds[n].provisioners) :
          builds[n].provisioners[i] \in {"running", "complete"} => builds[n].errors[i] = ""
  IN /\ StateFile.kind = "json" => Clear(StateFile.builds)
     /\ mState[M].kind = "doc" => Clear(mState[M].builds)

\* C34 witness: the simulator has resumed the build that failed at its second
\* provisioner; that step is now complete on disk and its error is empty.
C34_Witness ==
  /\ cmd.kind = "sim" /\ cmd.file0 = Encode(DocFailedStep2)
  /\ cmd.file0.builds["b1"].errors[2] = StepMessage
  /\ StateFile.kind = "json" /\ "b1" \in DOMAIN StateFile.builds
  /\ StateFile.builds["b1"].provisioners[2] = "complete"
  /\ StateFile.builds["b1"].errors[2] = ""

\* the status changes a build record may show between two versions on disk
StatusEdges ==
  {<<"pending", "creating">>, <<"creating", "provisioning">>,
   <<"provisioning", "post_processing">>, <<"post_processing", "complete">>,
   <<"creating", "failed">>, <<"provisioning", "failed">>, <<"post_processing", "failed">>,
   <<"failed", "creating">>, <<"failed", "provisioning">>}

\* C31 (as claimed): between two successive versions of the state file the
\* status of a build record stays or moves along an edge of StatusEdges.
C31_StatusStateMachine ==
  [][(StateFile.kind = "json" /\ StateFileNext.kind = "json")
       => \A n \in DOMAIN StateFile.builds \cap DOMAIN StateFileNext.builds :
            \/ StateFileNext.builds[n].status = StateFile.builds[n].status
            \/ <<StateFile.builds[n].status, StateFileNext.builds[n].status>> \in StatusEdges]_vars

\* a record the state file did not show as complete before this step
FirstComplete(n) ==
  /\ StateFileNext.kind = "json" /\ n \in DOMAIN StateFileNext.builds
  /\ StateFileNext.builds[n].status = "complete"
  /\ ~(OnDisk(n) /\ StateFile.builds[n].status = "complete")

\* C32 (as claimed): a build record written as complete has a completion time
\* and every one of its steps is complete or skipped.
C32_CompleteMeansAllDone ==
  [][\A n \in {"b1", "b2"} :
       FirstComplete(n)
         => /\ StateFileNext.builds[n].completed # 0
            /\ \A i \in 1..Len(StateFileNext.builds[n].provisioners) :
                 StateFileNext.builds[n].provisioners[i] \in {"complete", "skipped"}]_vars

\* C33 (as claimed): when Run has returned the engine's error and the state
\* file shows the build as failed, the record has an error, and of its steps
\* those the engine got through are complete, the one it failed in is failed
\* with an error, and the rest are pending.
C33_FailureKeepsSteps ==
  ( /\ cmd.kind = "build" /\ cmd.pc = "ran"
    /\ cmd.res.kind = "err" /\ cmd.res.from = "engine"
    /\ OnDisk(CurBuild) /\ StateFile.builds[CurBuild].status = "failed")
  => LET rec == StateFile.builds[CurBuild]
         k == Len(cmd.engine[Len(cmd.engine)].steps)
     IN /\ rec.error # ""
        /\ \A j \in 1..Len(rec.provisioners) :
             /\ j < k => rec.provisioners[j] = "complete"
             /\ j = k => rec.provisioners[j] = "failed" /\ rec.errors[j] # ""
             /\ j > k => rec.provisioners[j] = "pending"

\* C35: when Run is entered for a build that is not complete and has an
\* instance, the resume fails, and in that step the record in memory loses
\* the instance and gets the status creating, nothing is returned and the
\* engine has not run; Run goes on to the Save before the engine. Whenever
\* the engine is about to be invoked the record on disk has no instance, and
\* when Run of such a build has returned anything but a Save error, the last
\* run of the engine was for that build.
C35_ResumeFallsBack ==
  /\ [][( /\ cmd.kind = "build" /\ cmd.pc = "run"
          /\ CurBuild \in DOMAIN mState[M].builds
          /\ mState[M].builds[CurBuild].status # "complete"
          /\ mState[M].builds[CurBuild].instance # NoInstance
          /\ cmd' # cmd)
        => /\ cmd'.pc = "save_creating"
           /\ cmd'.res = cmd.res /\ cmd'.engine = cmd.engine
           /\ mState'[M].builds[CurBuild] =
                [mState[M].builds[CurBuild] EXCEPT !.instance = NoInstance,
                                                   !.status = "creating"]]_vars
  /\ []((cmd.kind = "build" /\ cmd.pc = "engine")
          => OnDisk(CurBuild) /\ StateFile.builds[CurBuild].instance = NoInstance)
  /\ [](( /\ cmd.kind = "build" /\ cmd.pc = "ran" /\ cmd.i = 1
          /\ cmd.file0 = Encode(DocFailedStep2)
          /\ ~(cmd.res.kind = "err" /\ cmd.res.from = "save"))
        => /\ cmd.engine # <<>>
           /\ cmd.engine[Len(cmd.engine)].build = CurBuild)

\* C35 witness: the build stored as failed with its instance kept is at the
\* point where the engine is invoked; the file shows it creating, without an
\* instance.
C35_Witness ==
  /\ cmd.kind = "build" /\ cmd.pc = "engine"
  /\ cmd.file0 = Encode(DocFailedStep2) /\ CurBuild = "b1"
  /\ cmd.file0.builds["b1"].instance # NoInstance
  /\ StateFile.kind = "json"
  /\ StateFile.builds["b1"].instance = NoInstance
  /\ StateFile.builds["b1"].status = "creating"
  /\ cmd.engine = <<>>

\* C38 (as claimed): when Run has returned artifacts of a build it ran, the
\* state file shows that build complete with those artifacts.
C38_ReturnedArtifactsAreRecorded ==
  ( /\ cmd.kind = "build" /\ cmd.pc = "ran"
    /\ cmd.res.kind = "arts" /\ ~cmd.res.cached)
  => /\ OnDisk(CurBuild)
     /\ StateFile.builds[CurBuild].status = "complete"
     /\ StateFile.builds[CurBuild].artifacts = ArtifactsToState(cmd.res.arts)

\* C39 (as claimed): no version of the state file shows a build record that
\* is creating or complete with a non-empty error.
C39_NoStaleBuildError ==
  [][(StateFileNext # StateFile /\ StateFileNext.kind = "json")
       => \A n \in DOMAIN StateFileNext.builds :
            StateFileNext.builds[n].status \in {"creating", "complete"}
              => StateFileNext.builds[n].error = ""]_vars

\* C36: the UpdateTemplateInputs of the build command replaces the template
\* record of the document in memory by the given hash, variables and files
\* and changes nothing else: the rest of the document (serial, lineage,
\* builds), every path and file content, and the lock are as before, no
\* operation of the Manager is entered, and InputsChanged on the same inputs
\* is false afterwards.
C36_UpdateInputsInMemoryOnly ==
  [][(cmd.kind = "build" /\ call'[M] = "UpdateTemplateInputs" /\ call[M] # "UpdateTemplateInputs")
       => /\ mState[M].kind = "doc"
          /\ mState'[M] = [mState[M] EXCEPT !.template =
                             [hash |-> cmd.hash, variables |-> cmd.vars, files |-> NoEntries]]
          /\ ~InputsChanged(mState'[M], cmd.hash, cmd.vars, NoEntries)
          /\ dir' = dir /\ data' = data /\ fd' = fd
          /\ lmLock' = lmLock /\ pc' = pc /\ sess' = sess]_vars

\* C36 witness: the build command has set other inputs than the stored ones;
\* the document in memory has them, the state file still has the old ones at
\* the old serial, and the lock is held.
C36_Witness ==
  /\ cmd.kind = "build" /\ cmd.pc = "update" /\ call[M] = "UpdateTemplateInputs"
  /\ cmd.file0 = Encode(DocBuilt)
  /\ mState[M].template.variables = cmd.vars
  /\ mState[M].template.variables # BuildVars
  /\ StateFile = cmd.file0 /\ StateFile.template.variables = BuildVars
  /\ mState[M].serial = StateFile.serial
  /\ dir[LockPath] # NoFile /\ lmLock[M] # NoLock

\* C37: a Close whose save fails returns the error with the session still
\* open: the lock file is the one the manager wrote, untouched, and the
\* manager still has its lock; while that lasts, a Manager.Load of another
\* manager ends with an error and opens no session.
C37_FailedCloseKeepsLock ==
  /\ [][\A m \in Managers :
          ( /\ Moves(m) /\ call'[m] = "Close" /\ pc'[m] = "idle" /\ ret'[m] = "io"
            /\ pc[m] \notin {"ul_read", "ul_remove"})
            => /\ Holds(m) /\ Holds(m)'
               /\ lmLock'[m] = lmLock[m]
               /\ dir[LockPath] # NoFile /\ dir'[LockPath] = dir[LockPath]
               /\ ContentOf(dir', data', LockPath) = [kind |-> "lock", id |-> lmLock[m]]]_vars
  /\ [][\A a, b \in Managers :
          ( /\ a # b /\ call[a] = "Close" /\ pc[a] = "idle" /\ ret[a] = "io" /\ Holds(a)
            /\ Moves(b) /\ call'[b] = "Load" /\ pc'[b] = "idle")
            => /\ ret'[b] \in {"locked", "io"}
               /\ ~sess'[b] /\ lmLock'[b] = NoLock
               /\ dir'[LockPath] = dir[LockPath]]_vars

\* C37 witness: the save of a's Close has failed (the file is one serial
\* behind a's document), the lock file is a's, and b's Load was turned away.
C37_Witness ==
  \E a, b \in Managers :
    /\ a # b
    /\ call[a] = "Close" /\ pc[a] = "idle" /\ ret[a] = "io" /\ Holds(a)
    /\ ContentAt(LockPath) = [kind |-> "lock", id |-> lmLock[a]]
    /\ StateFile.kind = "json" /\ mState[a].kind = "doc"
    /\ mState[a].serial = StateFile.serial + 1
    /\ call[b] = "Load" /\ pc[b] = "idle" /\ ret[b] = "locked"

\* C40 (as claimed): the build command never ends in a panic: SetBuild works
\* on every document that Manager.Load has returned.
C40_UsableBuilds == cmd.kind = "build" => cmd.exit # PanicExit

====
